---- MODULE Spec2Model ----
(***************************************************************************)
(* A model of the modeling_tool execution kernel: the EventQueue (a heapq  *)
(* of (time, priority, counter, event) tuples), the triggers, the          *)
(* termination conditions, the EventDrivenExecutor with its worker pool,   *)
(* the Component with its task ordering, the synchronous Executor and      *)
(* SimulationTime.  Virtual time is counted in ticks of half a time unit, so that    *)
(* the delay 1.5 is the integer 3 and the interval 2.0 is the integer 4.   *)
(***************************************************************************)
EXTENDS Integers, Sequences, FiniteSets, TLC

VARIABLES
    cfg,              \* the component definition and the executor's parameters
    state,            \* component.state
    current_outputs,  \* component.current_outputs
    initial_inputs,   \* executor.initial_inputs
    event_queue,      \* EventQueue._queue: the heap list of entries
    counter,          \* EventQueue._counter
    current_time,     \* sim_time.current_time
    event_count,      \* executor.event_count
    input_round,      \* executor.input_round
    log,              \* executor.log.rounds
    latch,            \* the latch of each task's trigger
    pc,               \* where run() is: start, loop, join, done, error
    event,            \* the event being dispatched
    activated,        \* activated_tasks, as indices into the task list
    workers,          \* the calls of _execute_task made for this event
    error_queue,      \* error_queue of _execute_tasks_parallel
    completed,        \* the work items in the order their futures finished
    raised,           \* the exception run() ended with
    selections,       \* history: one record per call of _get_activated_tasks
    popped,           \* history: what each pop() of a bare queue returned
    current_round,    \* Executor.current_round
    round_inputs,     \* inputs of Executor.run: the input record of the round
    ordered_tasks,    \* what get_task_execution_order returned last
    rounds,           \* history: one record per call of execute_round
    start_time,       \* sim_time.start_time
    call,             \* history: the last call made on a bare SimulationTime
    reruns,           \* history: one record per later call of run() on the same executor
    document,         \* the definition handed to ComponentParser.parse_dict
    parsed            \* what parse_dict returned or raised

queueVars == <<event_queue, counter, popped>>

syncVars == <<current_round, round_inputs, ordered_tasks, rounds>>

timeVars == <<start_time, call>>

parseVars == <<document, parsed>>

runVars == <<reruns, parseVars>>

execVars == <<cfg, state, current_outputs, initial_inputs, current_time, event_count,
              input_round, log, latch, pc, event, activated, workers, error_queue,
              completed, raised, selections, syncVars, timeVars, runVars>>

vars == <<cfg, state, current_outputs, initial_inputs, event_queue, counter,
          current_time, event_count, input_round, log, latch, pc, event, activated,
          workers, error_queue, completed, raised, selections, popped,
          current_round, round_inputs, ordered_tasks, rounds, start_time, call,
          reruns, document, parsed>>

----------------------------------------------------------------------------
(* Bounds of the model.                                                    *)

\* the number of push() calls explored on a bare EventQueue
MaxPushes == 3
\* the largest MaxRounds(n) of the counter runs
MaxRoundsBound == 3
\* the largest number of tasks of the components whose dependency graphs are
\* enumerated
MaxTasks == 3
\* the largest argument and the number of calls explored on a bare SimulationTime
MaxTimeArg == 2
MaxCalls == 3

\* the number of times run() is called again on an executor whose run is over
MaxReruns == 1

\* the width of the significand of the floats of the model: the times are
\* Python floats (53 bits), and with this width the rounding of a sum shows
\* within a few intervals
MantissaBits == 6

\* the number of iterations of the loop of run() explored in a run that has
\* no end
MaxIterations == 64

\* the number of events (MaxEvents) or ticks (MaxTime) after which the runs
\* of the open-ended components are terminated
Horizon == 8

----------------------------------------------------------------------------
(* Python floats: the times, in ticks of half a unit. An operation returns *)
(* the exact result rounded to the nearest value the significand can hold, *)
(* ties to the even significand; results below 2^MantissaBits are exact.   *)

\* the spacing of the floats around x >= 0
RECURSIVE Ulp(_)
Ulp(x) == IF x < 2 ^ MantissaBits THEN 1 ELSE 2 * Ulp(x \div 2)

\* the float nearest to the exact value x
RoundToFloat(x) ==
    LET m == IF x < 0 THEN -x ELSE x
        u == Ulp(m)
        below == (m \div u) * u
        rest == m - below
        nearest == IF 2 * rest < u THEN below
                   ELSE IF 2 * rest > u THEN below + u
                   ELSE IF (below \div u) % 2 = 0 THEN below ELSE below + u
    IN  IF x < 0 THEN -nearest ELSE nearest

\* a + b and a - b on floats
float_add(a, b) == RoundToFloat(a + b)
float_sub(a, b) == RoundToFloat(a - b)

----------------------------------------------------------------------------
(* Python dictionaries with scalar values: functions from keys to values.  *)

EmptyDict == [k \in {} |-> 0]

\* Python's None as a value of a mapping
NoneValue == -1

Range(seq) == { seq[i] : i \in 1 .. Len(seq) }

\* dict.update(other): every key of other is written, the others are kept
DictUpdate(d, e) ==
    [k \in (DOMAIN d) \cup (DOMAIN e) |-> IF k \in DOMAIN e THEN e[k] ELSE d[k]]

\* d[k] = v
DictSet(d, k, v) == [x \in (DOMAIN d) \cup {k} |-> IF x = k THEN v ELSE d[x]]

----------------------------------------------------------------------------
(* event.py: Event, a dataclass ordered on (time, priority) only.          *)

Event(time, name, priority, data, source_task) ==
    [time |-> time, name |-> name, priority |-> priority, data |-> data,
     source_task |-> source_task]

\* Event.__lt__ as generated by dataclass(order=True): the fields declared
\* compare=False (name, data, source_task) are left out
EventLess(e, f) ==
    \/ e.time < f.time
    \/ e.time = f.time /\ e.priority < f.priority

----------------------------------------------------------------------------
(* event_queue.py: the queue is a heapq of tuples                          *)
(* (event.time, event.priority, counter, event).                           *)

Entry(ev, c) == <<ev.time, ev.priority, c, ev>>

\* a variant that leaves the priority out of the heap key
EntryLessNoPriority(a, b) ==
    \/ a[1] < b[1]
    \/ a[1] = b[1] /\ a[3] < b[3]

\* tuple comparison a < b of two heap entries
EntryLess(a, b) ==
    \/ a[1] < b[1]
    \/ a[1] = b[1] /\ a[2] < b[2]
    \/ a[1] = b[1] /\ a[2] = b[2] /\ a[3] < b[3]
    \/ a[1] = b[1] /\ a[2] = b[2] /\ a[3] = b[3] /\ EventLess(a[4], b[4])

\* heapq._siftdown(heap, startpos, pos), positions counted from 1
RECURSIVE SiftDownLoop(_, _, _, _)
SiftDownLoop(heap, newitem, startpos, pos) ==
    IF pos > startpos /\ EntryLess(newitem, heap[pos \div 2])
    THEN SiftDownLoop([heap EXCEPT ![pos] = heap[pos \div 2]], newitem, startpos,
                      pos \div 2)
    ELSE [heap EXCEPT ![pos] = newitem]

siftdown(heap, startpos, pos) == SiftDownLoop(heap, heap[pos], startpos, pos)

\* heapq._siftup(heap, pos): bubble the smaller child up until a leaf, then
\* sift the displaced item down from there
RECURSIVE SiftUpLoop(_, _, _, _)
SiftUpLoop(heap, newitem, startpos, pos) ==
    LET childpos == 2 * pos
        rightpos == childpos + 1
        c == IF rightpos <= Len(heap) /\ ~EntryLess(heap[childpos], heap[rightpos])
             THEN rightpos ELSE childpos
    IN  IF childpos <= Len(heap)
        THEN SiftUpLoop([heap EXCEPT ![pos] = heap[c]], newitem, startpos, c)
        ELSE siftdown([heap EXCEPT ![pos] = newitem], startpos, pos)

siftup(heap, pos) == SiftUpLoop(heap, heap[pos], pos, pos)

\* heapq.heappush(heap, item)
heappush(heap, item) == siftdown(Append(heap, item), 1, Len(heap) + 1)

\* heapq.heappop(heap): the item returned and the heap left
heappop(heap) ==
    LET lastelt == heap[Len(heap)]
        rest == SubSeq(heap, 1, Len(heap) - 1)
    IN  IF rest # <<>>
        THEN [item |-> heap[1], heap |-> siftup([rest EXCEPT ![1] = lastelt], 1)]
        ELSE [item |-> lastelt, heap |-> rest]

\* EventQueue.push(event): the queue and counter after the call
QueuePush(q, c, ev) == [queue |-> heappush(q, Entry(ev, c)), counter |-> c + 1]

\* EventQueue.pop() on a non-empty queue
QueuePop(q) == heappop(q)

\* EventQueue.is_empty()
is_empty(q) == Len(q) = 0

----------------------------------------------------------------------------
(* task.py: a task's code is a list of statements run against the private  *)
(* inputs, outputs and state mappings and the task's EventEmitter.         *)

Statement(op, k, v, d, p, src) ==
    [op |-> op, key |-> k, val |-> v, delay |-> d, priority |-> p, src |-> src]

SetState(k, v) == Statement("set_state", k, v, 0, 0, "")
SetOut(k, v)   == Statement("set_out", k, v, 0, 0, "")
\* state.k = state.k + 1
IncState(k)    == Statement("inc_state", k, 0, 0, 0, "")
\* emit_event(name, delay=d, priority=p)
Emit(n, d, p)  == Statement("emit", n, 0, d, p, "")
\* raise
Raise          == Statement("raise", "", 0, 0, 0, "")
\* state.k = state.src + 1
SuccState(k, src) == Statement("succ_state", k, 0, 0, 0, src)
\* state.k = state.k + inputs.src
AddInput(k, src)  == Statement("add_input", k, 0, 0, 0, src)
\* outputs.k = state.src
OutState(k, src)  == Statement("out_state", k, 0, 0, 0, src)

\* TaskContext plus the EventEmitter's pending_events; failed tells that the
\* code raised, and written is the history of the (mapping, key) pairs the
\* code assigned
Context(inputs, outputs, st) ==
    [inputs |-> inputs, outputs |-> outputs, state |-> st, pending |-> <<>>,
     failed |-> FALSE, written |-> {}]

\* EventEmitter.emit: data is None, so the event data is the empty mapping
EmitterEmit(pending, n, d, p) ==
    Append(pending, [name |-> n, data |-> "empty", delay |-> d, priority |-> p])

\* one statement; reading a key the mapping lacks raises (DictWrapper.__getattr__)
Step(ins, ctx) ==
    CASE ins.op = "set_state" ->
            [ctx EXCEPT !.state = DictSet(@, ins.key, ins.val),
                        !.written = @ \cup {<<"state", ins.key>>}]
      [] ins.op = "set_out"   ->
            [ctx EXCEPT !.outputs = DictSet(@, ins.key, ins.val),
                        !.written = @ \cup {<<"outputs", ins.key>>}]
      [] ins.op = "inc_state" ->
            IF ins.key \in DOMAIN ctx.state /\ ctx.state[ins.key] # NoneValue
            THEN [ctx EXCEPT !.state = DictSet(@, ins.key, ctx.state[ins.key] + 1),
                             !.written = @ \cup {<<"state", ins.key>>}]
            ELSE [ctx EXCEPT !.failed = TRUE]
      [] ins.op = "emit"      ->
            [ctx EXCEPT !.pending = EmitterEmit(@, ins.key, ins.delay, ins.priority)]
      [] ins.op = "succ_state" ->
            IF ins.src \in DOMAIN ctx.state /\ ctx.state[ins.src] # NoneValue
            THEN [ctx EXCEPT !.state = DictSet(@, ins.key, ctx.state[ins.src] + 1),
                             !.written = @ \cup {<<"state", ins.key>>}]
            ELSE [ctx EXCEPT !.failed = TRUE]
      [] ins.op = "add_input" ->
            IF /\ ins.key \in DOMAIN ctx.state /\ ctx.state[ins.key] # NoneValue
               /\ ins.src \in DOMAIN ctx.inputs /\ ctx.inputs[ins.src] # NoneValue
            THEN [ctx EXCEPT !.state = DictSet(@, ins.key,
                                               ctx.state[ins.key] + ctx.inputs[ins.src]),
                             !.written = @ \cup {<<"state", ins.key>>}]
            ELSE [ctx EXCEPT !.failed = TRUE]
      [] ins.op = "out_state" ->
            IF ins.src \in DOMAIN ctx.state
            THEN [ctx EXCEPT !.outputs = DictSet(@, ins.key, ctx.state[ins.src]),
                             !.written = @ \cup {<<"outputs", ins.key>>}]
            ELSE [ctx EXCEPT !.failed = TRUE]
      [] OTHER                -> [ctx EXCEPT !.failed = TRUE]

\* exec(task.compiled_code, task_namespace): statements run in order until one raises
RECURSIVE Exec(_, _)
Exec(code, ctx) ==
    IF code = <<>> \/ ctx.failed THEN ctx
    ELSE Exec(Tail(code), Step(Head(code), ctx))

----------------------------------------------------------------------------
(* Expressions over state used by ConditionTrigger, by task guards and by  *)
(* StateCondition: state[key] > bound, which raises when the key is absent *)
(* or holds None.                                                          *)

NoExpr == [kind |-> "none", key |-> "", bound |-> 0]
Gt(k, n) == [kind |-> "gt", key |-> k, bound |-> n]

\* eval(expression, {'state': state, ...}): "T", "F", or "ERR" when it raises
Eval(expr, st) ==
    IF expr.key \notin DOMAIN st THEN "ERR"
    ELSE IF st[expr.key] = NoneValue THEN "ERR"
    ELSE IF st[expr.key] > expr.bound THEN "T" ELSE "F"

----------------------------------------------------------------------------
(* trigger.py                                                              *)

Periodic(i)    == [type |-> "periodic", interval |-> i, event_name |-> "", cond |-> NoExpr]
OnEvent(n)     == [type |-> "event", interval |-> 0, event_name |-> n, cond |-> NoExpr]
OnCondition(e) == [type |-> "condition", interval |-> 0, event_name |-> "", cond |-> e]
Immediate      == [type |-> "immediate", interval |-> 0, event_name |-> "", cond |-> NoExpr]
\* a Task built without the parser's trigger attribute
NoTrigger      == [type |-> "none", interval |-> 0, event_name |-> "", cond |-> NoExpr]

\* the latches of the four triggers as constructed: last_execution = -inf
\* (never = TRUE), was_true = False, has_run = False
InitLatch ==
    [never |-> TRUE, last_execution |-> 0, was_true |-> FALSE, has_run |-> FALSE]

\* a variant that fires only when more than the interval has passed
PeriodicShouldActivateStrict(trg, l, now) ==
    IF l.never \/ now - l.last_execution > trg.interval
    THEN [result |-> TRUE, eval |-> "n/a",
          latch |-> [l EXCEPT !.never = FALSE, !.last_execution = now]]
    ELSE [result |-> FALSE, eval |-> "n/a", latch |-> l]

\* PeriodicTrigger.should_activate
PeriodicShouldActivate(trg, l, now) ==
    IF l.never \/ float_sub(now, l.last_execution) >= trg.interval
    THEN [result |-> TRUE, eval |-> "n/a",
          latch |-> [l EXCEPT !.never = FALSE, !.last_execution = now]]
    ELSE [result |-> FALSE, eval |-> "n/a", latch |-> l]

\* a variant that re-arms one tick late
get_next_time_late(trg, l) == l.last_execution + trg.interval + 1

\* PeriodicTrigger.get_next_time
get_next_time(trg, l) == float_add(l.last_execution, trg.interval)

\* EventTrigger.should_activate
EventShouldActivate(trg, l, event_name) ==
    [result |-> event_name = trg.event_name, eval |-> "n/a", latch |-> l]

\* a variant that fires on the level of the expression, not on its edge
ConditionShouldActivateLevel(trg, l, st) ==
    LET v == Eval(trg.cond, st)
    IN  IF v = "ERR" THEN [result |-> FALSE, eval |-> v, latch |-> l]
        ELSE [result |-> (v = "T"), eval |-> v,
              latch |-> [l EXCEPT !.was_true = (v = "T")]]

\* a variant in which an evaluation that raises clears was_true
ConditionShouldActivateClears(trg, l, st) ==
    LET v == Eval(trg.cond, st)
    IN  IF v = "ERR"
        THEN [result |-> FALSE, eval |-> v, latch |-> [l EXCEPT !.was_true = FALSE]]
        ELSE [result |-> (v = "T") /\ ~l.was_true, eval |-> v,
              latch |-> [l EXCEPT !.was_true = (v = "T")]]

\* ConditionTrigger.should_activate: an evaluation that raises returns False
\* and leaves was_true alone
ConditionShouldActivate(trg, l, st) ==
    LET v == Eval(trg.cond, st)
    IN  IF v = "ERR" THEN [result |-> FALSE, eval |-> v, latch |-> l]
        ELSE [result |-> (v = "T") /\ ~l.was_true, eval |-> v,
              latch |-> [l EXCEPT !.was_true = (v = "T")]]

\* a variant that never sets has_run
ImmediateShouldActivateAgain(l) ==
    [result |-> ~l.has_run, eval |-> "n/a", latch |-> l]

\* ImmediateTrigger.should_activate
ImmediateShouldActivate(l) ==
    IF ~l.has_run
    THEN [result |-> TRUE, eval |-> "n/a", latch |-> [l EXCEPT !.has_run = TRUE]]
    ELSE [result |-> FALSE, eval |-> "n/a", latch |-> l]

\* task.trigger.should_activate(event.name, state, current_time), and False
\* for a task without the trigger attribute
should_activate(trg, l, event_name, st, now) ==
    CASE trg.type = "periodic"  -> PeriodicShouldActivate(trg, l, now)
      [] trg.type = "event"     -> EventShouldActivate(trg, l, event_name)
      [] trg.type = "condition" -> ConditionShouldActivate(trg, l, st)
      [] trg.type = "immediate" -> ImmediateShouldActivate(l)
      [] OTHER                  -> [result |-> FALSE, eval |-> "n/a", latch |-> l]

----------------------------------------------------------------------------
(* termination.py                                                          *)

MaxTime(t)       == [type |-> "max_time", n |-> t, expr |-> NoExpr]
MaxEvents(n)     == [type |-> "max_events", n |-> n, expr |-> NoExpr]
MaxRounds(n)     == [type |-> "max_rounds", n |-> n, expr |-> NoExpr]
EmptyQueue       == [type |-> "empty_queue", n |-> 0, expr |-> NoExpr]
StateCond(e)     == [type |-> "state", n |-> 0, expr |-> e]

\* should_terminate of one condition: "T", "F", or "ERR" when StateCondition
\* raises RuntimeError
\* a variant in which a StateCondition that fails to evaluate counts as false
CondShouldTerminateSilent(c, round_number, st, now, nevents, q) ==
    CASE c.type = "max_time"    -> IF now >= c.n THEN "T" ELSE "F"
      [] c.type = "max_events"  -> IF nevents >= c.n THEN "T" ELSE "F"
      [] c.type = "max_rounds"  -> IF round_number >= c.n THEN "T" ELSE "F"
      [] c.type = "empty_queue" -> IF is_empty(q) THEN "T" ELSE "F"
      [] OTHER                  -> IF round_number = 0 \/ Eval(c.expr, st) = "ERR"
                                   THEN "F" ELSE Eval(c.expr, st)

CondShouldTerminate(c, round_number, st, now, nevents, q) ==
    CASE c.type = "max_time"    -> IF now >= c.n THEN "T" ELSE "F"
      [] c.type = "max_events"  -> IF nevents >= c.n THEN "T" ELSE "F"
      [] c.type = "max_rounds"  -> IF round_number >= c.n THEN "T" ELSE "F"
      [] c.type = "empty_queue" -> IF is_empty(q) THEN "T" ELSE "F"
      [] OTHER                  -> IF round_number = 0 THEN "F" ELSE Eval(c.expr, st)

\* a variant that asks for every child to hold
RECURSIVE CompositeShouldTerminateAll(_, _, _, _, _, _)
CompositeShouldTerminateAll(conds, round_number, st, now, nevents, q) ==
    IF conds = <<>> THEN "T"
    ELSE LET r == CondShouldTerminate(Head(conds), round_number, st, now, nevents, q)
         IN  IF r = "T"
             THEN CompositeShouldTerminateAll(Tail(conds), round_number, st, now, nevents, q)
             ELSE r

\* CompositeCondition.should_terminate: any() over the list, stopping at the
\* first true child; a child that raises before that aborts the evaluation
RECURSIVE CompositeShouldTerminate(_, _, _, _, _, _)
CompositeShouldTerminate(conds, round_number, st, now, nevents, q) ==
    IF conds = <<>> THEN "F"
    ELSE LET r == CondShouldTerminate(Head(conds), round_number, st, now, nevents, q)
         IN  IF r = "F"
             THEN CompositeShouldTerminate(Tail(conds), round_number, st, now, nevents, q)
             ELSE r

----------------------------------------------------------------------------
(* component.py: validation of the task list and the execution order.  A   *)
(* dict keyed by task name keeps the position of a name's first insertion  *)
(* and the value of its last.                                              *)

\* the keys of a dict built by iterating over the tasks, in insertion order
TaskKeys(tasks) ==
    LET first == SelectSeq([i \in 1 .. Len(tasks) |-> i],
                           LAMBDA i : \A j \in 1 .. i - 1 : tasks[j].name # tasks[i].name)
    IN  [k \in 1 .. Len(first) |-> tasks[first[k]].name]

\* the index of the task a dict {task.name: ...} holds for the name
TaskOf(tasks, name) ==
    CHOOSE i \in 1 .. Len(tasks) :
        /\ tasks[i].name = name
        /\ \A j \in i + 1 .. Len(tasks) : tasks[j].name # name

\* graph = {task.name: task.depends_on for task in self.tasks}
DependencyGraph(tasks) ==
    [name \in Range(TaskKeys(tasks)) |-> tasks[TaskOf(tasks, name)].depends_on]

\* graph.get(node, [])
GraphGet(graph, node) == IF node \in DOMAIN graph THEN graph[node] ELSE <<>>

\* dfs(node) of _has_circular_dependencies; acc carries visited, rec_stack
\* and the value returned
RECURSIVE dfs(_, _, _)
RECURSIVE DfsNeighbors(_, _, _, _)
dfs(graph, node, acc) ==
    DfsNeighbors(graph, node, 1,
                 [acc EXCEPT !.visited = @ \cup {node}, !.rec_stack = @ \cup {node}])

DfsNeighbors(graph, node, i, acc) ==
    IF i > Len(GraphGet(graph, node))
    THEN [acc EXCEPT !.rec_stack = @ \ {node}, !.found = FALSE]
    ELSE LET neighbor == GraphGet(graph, node)[i]
         IN  IF neighbor \notin acc.visited
             THEN LET r == dfs(graph, neighbor, acc)
                  IN  IF r.found THEN r ELSE DfsNeighbors(graph, node, i + 1, r)
             ELSE IF neighbor \in acc.rec_stack
                  THEN [acc EXCEPT !.found = TRUE]
                  ELSE DfsNeighbors(graph, node, i + 1, acc)

\* the loop over the task names of _has_circular_dependencies
RECURSIVE CircularLoop(_, _, _, _)
CircularLoop(graph, keys, k, acc) ==
    IF k > Len(keys) THEN FALSE
    ELSE IF keys[k] \in acc.visited THEN CircularLoop(graph, keys, k + 1, acc)
    ELSE LET r == dfs(graph, keys[k], acc)
         IN  IF r.found THEN TRUE ELSE CircularLoop(graph, keys, k + 1, r)

\* a variant that holds a self-dependency for no cycle
has_circular_dependencies_but_self(tasks) ==
    LET pruned == [i \in 1 .. Len(tasks) |->
                     [tasks[i] EXCEPT !.depends_on =
                         SelectSeq(@, LAMBDA d : d # tasks[i].name)]]
    IN  CircularLoop(DependencyGraph(pruned), TaskKeys(pruned), 1,
                     [visited |-> {}, rec_stack |-> {}, found |-> FALSE])

\* Component._has_circular_dependencies
has_circular_dependencies(tasks) ==
    CircularLoop(DependencyGraph(tasks), TaskKeys(tasks), 1,
                 [visited |-> {}, rec_stack |-> {}, found |-> FALSE])

\* Component._validate_tasks: "ok", or the reason it raises ComponentError
validate_tasks(tasks) ==
    IF \E i \in 1 .. Len(tasks) :
          \E d \in Range(tasks[i].depends_on) : d \notin Range(TaskKeys(tasks))
    THEN "unknown"
    ELSE IF has_circular_dependencies(tasks) THEN "circular" ELSE "ok"

\* the (dependency, dependent) pairs in the order the two loops of
\* get_task_execution_order meet them
RECURSIVE DependencyPairs(_, _)
DependencyPairs(tasks, i) ==
    IF i > Len(tasks) THEN <<>>
    ELSE [k \in 1 .. Len(tasks[i].depends_on) |-> <<tasks[i].depends_on[k], tasks[i].name>>]
         \o DependencyPairs(tasks, i + 1)

\* the number of elements of a sequence that satisfy a test
Count(seq, Test(_)) == Len(SelectSeq(seq, Test))

\* for neighbor in adjacency[current]: the in-degree drops, and a task whose
\* in-degree reaches 0 joins the queue
RECURSIVE Release(_, _, _)
Release(neighbors, i, acc) ==
    IF i > Len(neighbors) THEN acc
    ELSE LET n == neighbors[i]
             d == acc.in_degree[n] - 1
         IN  Release(neighbors, i + 1,
                     [in_degree |-> [acc.in_degree EXCEPT ![n] = d],
                      queue |-> IF d = 0 THEN Append(acc.queue, n) ELSE acc.queue])

\* a variant that takes the task that became ready last
RECURSIVE KahnLoopLifo(_, _, _, _)
KahnLoopLifo(queue, in_degree, adjacency, ordered) ==
    IF queue = <<>> THEN ordered
    ELSE LET current == queue[Len(queue)]
             r == Release(adjacency[current], 1,
                          [in_degree |-> in_degree, queue |-> SubSeq(queue, 1, Len(queue) - 1)])
         IN  KahnLoopLifo(r.queue, r.in_degree, adjacency, Append(ordered, current))

\* while queue: current = queue.pop(0) ...
RECURSIVE KahnLoop(_, _, _, _)
KahnLoop(queue, in_degree, adjacency, ordered) ==
    IF queue = <<>> THEN ordered
    ELSE LET current == Head(queue)
             r == Release(adjacency[current], 1,
                          [in_degree |-> in_degree, queue |-> Tail(queue)])
         IN  KahnLoop(r.queue, r.in_degree, adjacency, Append(ordered, current))

\* a variant that returns the tasks in declared order
get_task_execution_order_declared(tasks) ==
    [ok |-> TRUE, error |-> "none", order |-> [i \in 1 .. Len(tasks) |-> i]]

\* Component.get_task_execution_order: the tasks as indices into the task
\* list, or a failure when a dependency names no task (KeyError) or when
\* fewer tasks than declared come out (ComponentError)
get_task_execution_order(tasks) ==
    LET keys  == TaskKeys(tasks)
        pairs == DependencyPairs(tasks, 1)
    IN  IF \E k \in 1 .. Len(pairs) : pairs[k][1] \notin Range(keys)
        THEN [ok |-> FALSE, error |-> "KeyError", order |-> <<>>]
        ELSE LET in_degree == [n \in Range(keys) |-> Count(pairs, LAMBDA e : e[2] = n)]
                 adjacency == [n \in Range(keys) |->
                                 LET out == SelectSeq(pairs, LAMBDA e : e[1] = n)
                                 IN  [k \in 1 .. Len(out) |-> out[k][2]]]
                 queue   == SelectSeq(keys, LAMBDA n : in_degree[n] = 0)
                 ordered == KahnLoop(queue, in_degree, adjacency, <<>>)
             IN  IF Len(ordered) # Len(tasks)
                 THEN [ok |-> FALSE, error |-> "ComponentError", order |-> <<>>]
                 ELSE [ok |-> TRUE, error |-> "none",
                       order |-> [k \in 1 .. Len(ordered) |-> TaskOf(tasks, ordered[k])]]

----------------------------------------------------------------------------
(* The components and executor parameters the event-driven run is checked  *)
(* on.  Times, intervals and delays are in ticks of half a time unit.      *)

Task(n, trg, guard, code) ==
    [name |-> n, trigger |-> trg, condition |-> guard, code |-> code,
     depends_on |-> <<>>]

NoGenerator == [on |-> FALSE, interval |-> 0, sequence |-> <<>>]
\* FixedInputGenerator(sequence) together with input_interval
FixedGenerator(interval, sequence) ==
    [on |-> TRUE, interval |-> interval, sequence |-> sequence]

Config(n, tasks, st, outs, term, seed, workers_, gen) ==
    [name |-> n, tasks |-> tasks, state |-> st, outputs |-> outs, term |-> term,
     seed |-> seed, max_workers |-> workers_, generator |-> gen,
     type |-> "asynchronous", inputs |-> <<>>, track_task_order |-> FALSE]

\* one task, PeriodicTrigger(2.0), state.ticks += 1, MaxTime(5.0)
TicksConfig ==
    Config("ticks",
           << Task("tick", Periodic(4), NoExpr, << IncState("ticks") >>) >>,
           [ticks |-> 0], <<>>, << MaxTime(10) >>, <<>>, 2, NoGenerator)

\* ping seeded at t=0; A emits pong with delay 1.5; B sets state.done
PingPongConfig ==
    Config("pingpong",
           << Task("A", OnEvent("ping"), NoExpr, << Emit("pong", 3, 0) >>),
              Task("B", OnEvent("pong"), NoExpr, << SetState("done", 1) >>) >>,
           [done |-> 0], <<>>, << EmptyQueue >>,
           << Event(0, "ping", 0, "empty", "none") >>, 2, NoGenerator)

\* A sets state.ok, B raises; both triggered by the start event
IsolationConfigs ==
    { Config("isolation",
             << Task("A", OnEvent("start"), NoExpr, << SetState("ok", 1) >>),
                Task("B", OnEvent("start"), NoExpr, << Raise >>) >>,
             [ok |-> 0], <<>>, << EmptyQueue >>, <<>>, w, NoGenerator) : w \in 1 .. 2 }

\* a task that writes state and outputs and then raises, alone (run inline)
\* or next to tasks that succeed (run in the pool)
PartialConfigs ==
    { Config("partial_inline",
             << Task("B", OnEvent("start"), NoExpr,
                     << SetState("b", 2), SetOut("p", 2), Raise >>) >>,
             [a |-> 0, b |-> 0], << "o", "p" >>, << EmptyQueue >>, <<>>, 2, NoGenerator) }
    \cup
    { Config("partial_pool",
             << Task("A", OnEvent("start"), NoExpr,
                     << SetState("a", 1), SetOut("o", 1), Emit("next", 1, 0) >>),
                Task("B", OnEvent("start"), NoExpr,
                     << SetState("b", 2), SetOut("p", 2), SetState("a", 5), Raise >>),
                Task("C", OnEvent("start"), NoExpr,
                     << SetState("b", 3), IncState("missing") >>) >>,
             [a |-> 0, b |-> 0], << "o", "p" >>, << EmptyQueue >>, <<>>, w,
             NoGenerator) : w \in 1 .. 3 }

\* a periodic task that raises next to one that succeeds: their re-armed
\* periodic events are queued when the error is raised
FailingPeriodicConfigs ==
    { Config("failing_periodic",
             << Task("F", Periodic(2), NoExpr, << SetState("f", 1), Raise >>),
                Task("G", Periodic(2), NoExpr, << SetState("g", 1) >>) >>,
             [f |-> 0, g |-> 0], <<>>, << MaxTime(Horizon) >>, <<>>, w,
             NoGenerator) : w \in 1 .. 2 }

\* tasks that all succeed and write pairwise disjoint state keys
DisjointConfigs ==
    { Config("disjoint",
             << Task("A", OnEvent("start"), NoExpr, << SetState("a", 1), SetOut("o", 1) >>),
                Task("B", OnEvent("start"), NoExpr, << SetState("b", 2), SetOut("p", 2) >>),
                Task("C", OnEvent("start"), NoExpr, << SetState("c", 3) >>) >>,
             [a |-> 0, b |-> 0, c |-> 0, d |-> 0], << "o", "p" >>,
             << EmptyQueue >>, <<>>, w, NoGenerator) : w \in 1 .. 3 }

\* ConditionTrigger(x > 10) while a periodic task raises state.x by one per
\* event, for 15 events
EdgeConfig ==
    Config("edge",
           << Task("raise_x", Periodic(2), NoExpr, << IncState("x") >>),
              Task("watch", OnCondition(Gt("x", 10)), NoExpr, << SetOut("o", 1) >>) >>,
           [x |-> 0], << "o" >>, << MaxRounds(15) >>, <<>>, 2, NoGenerator)

\* the condition goes up and down as two tasks set and clear state.x in turn
UpDownConfig ==
    Config("updown",
           << Task("up", OnEvent("u"), NoExpr, << SetState("x", 1), Emit("d", 1, 0) >>),
              Task("down", OnEvent("d"), NoExpr, << SetState("x", 0), Emit("u", 1, 0) >>),
              Task("watch", OnCondition(Gt("x", 0)), NoExpr, << SetOut("o", 1) >>) >>,
           [x |-> 0], << "o" >>, << MaxEvents(Horizon) >>,
           << Event(0, "u", 0, "empty", "none") >>, 2, NoGenerator)

\* the condition reads a key the state lacks until the first task sets it
MissingKeyConfig ==
    Config("missing_key",
           << Task("init", OnEvent("start"), NoExpr,
                   << SetState("y", 5), Emit("e", 1, 0), Emit("e", 2, 0) >>),
              Task("watch", OnCondition(Gt("y", 0)), NoExpr, << SetOut("o", 1) >>) >>,
           EmptyDict, << "o" >>, << EmptyQueue >>, <<>>, 2, NoGenerator)

\* the condition reads a key that is absent, then 5, then None, then 5,
\* then 0, then 5: its evaluation raises, is true, raises, is true, false, true
EvalErrorConfig ==
    Config("eval_error",
           << Task("t0", OnEvent("start"), NoExpr, << SetState("y", 5), Emit("e1", 1, 0) >>),
              Task("t1", OnEvent("e1"), NoExpr, << SetState("y", NoneValue), Emit("e2", 1, 0) >>),
              Task("t2", OnEvent("e2"), NoExpr, << SetState("y", 5), Emit("e3", 1, 0) >>),
              Task("t3", OnEvent("e3"), NoExpr, << SetState("y", 0), Emit("e4", 1, 0) >>),
              Task("t4", OnEvent("e4"), NoExpr, << SetState("y", 5), Emit("e5", 1, 0) >>),
              Task("watch", OnCondition(Gt("y", 0)), NoExpr, << SetOut("o", 1) >>) >>,
           EmptyDict, << "o" >>, << EmptyQueue >>, <<>>, 1, NoGenerator)

\* an ImmediateTrigger next to a periodic task
ImmediateConfig ==
    Config("immediate",
           << Task("init", Immediate, NoExpr, << SetState("ready", 1) >>),
              Task("tick", Periodic(2), NoExpr, << SetOut("o", 1) >>) >>,
           [ready |-> 0], << "o" >>, << MaxEvents(Horizon) >>, <<>>, 2, NoGenerator)

\* an ImmediateTrigger when the first event popped is _generate_input; the
\* generator holds two records and raises at the third round
ImmediateInputConfig ==
    Config("immediate_input",
           << Task("init", Immediate, NoExpr, << SetState("ready", 1) >>),
              Task("on_input", OnEvent("input_ready"), NoExpr, << SetOut("o", 1) >>) >>,
           [ready |-> 0], << "o" >>, << MaxEvents(Horizon) >>, <<>>, 2,
           FixedGenerator(3, << [inc |-> 1], [inc |-> 2] >>))

\* one task without a trigger: only the start event is processed; under
\* MaxEvents the loop ends because pop() returns None
NoTriggerConfigs ==
    { Config("no_trigger",
             << Task("idle", NoTrigger, NoExpr, << SetState("x", 1) >>) >>,
             [x |-> 0], <<>>, << term >>, <<>>, 2, NoGenerator) :
        term \in {EmptyQueue, MaxEvents(3), MaxTime(Horizon), StateCond(Gt("x", 0))} }

\* periodic tasks of intervals 2 and 3 next to emitted events at other times
\* and priorities, a guarded periodic task and input generation
MixedConfigs ==
    { Config("mixed",
             << Task("P", Periodic(2), NoExpr, << SetOut("o", 1) >>),
                Task("Q", Periodic(3), NoExpr, << Emit("e", 1, -1), Emit("f", 2, 0) >>),
                Task("R", OnEvent("e"), NoExpr, << SetState("r", 1) >>),
                Task("G", Periodic(2), Gt("r", 0), << SetOut("p", 2) >>) >>,
             [r |-> 0], << "o", "p" >>, << term >>, <<>>, 2, gen) :
        term \in {MaxTime(Horizon), MaxEvents(Horizon)},
        gen \in {NoGenerator, FixedGenerator(5, << [inc |-> 1], [inc |-> 2] >>)} }

\* StateCondition(state['ticks'] > 2) over a periodic counter that starts
\* below or above the bound, and StateCondition over a key the state lacks
StateConditionConfigs ==
    { Config("state_condition",
             << Task("tick", Periodic(2), NoExpr, << IncState("ticks") >>) >>,
             [ticks |-> t0], <<>>, << StateCond(Gt(key, 2)) >>, <<>>, 2, NoGenerator) :
        t0 \in {0, 5}, key \in {"ticks", "absent"} }

\* CompositeCondition over a periodic counter: MaxEvents with MaxTime in
\* either order, a StateCondition that comes to hold, and a StateCondition
\* that raises placed before and after a MaxEvents that holds first
CompositeConfigs ==
    { Config("composite",
             << Task("tick", Periodic(2), NoExpr, << IncState("ticks") >>) >>,
             [ticks |-> 0], <<>>, term, <<>>, 2, NoGenerator) :
        term \in { << MaxEvents(3), MaxTime(10) >>,
                   << MaxTime(4), MaxEvents(5) >>,
                   << StateCond(Gt("ticks", 1)), MaxEvents(4) >>,
                   << MaxEvents(1), StateCond(Gt("absent", 0)) >>,
                   << StateCond(Gt("absent", 0)), MaxEvents(1) >> } }

\* an event emitted with a negative delay lies in the past when it is popped
BackwardsConfig ==
    Config("backwards",
           << Task("A", OnEvent("start"), NoExpr, << Emit("x", 2, 0) >>),
              Task("B", OnEvent("x"), NoExpr, << Emit("y", -1, 0) >>) >>,
           EmptyDict, <<>>, << EmptyQueue >>, <<>>, 2, NoGenerator)

\* a task of a synchronous component: code and depends_on, no trigger
SyncTask(n, deps, code) ==
    [name |-> n, trigger |-> NoTrigger, condition |-> NoExpr, code |-> code,
     depends_on |-> deps]

\* SynchronousComponent(name, state, inputs, outputs, tasks) and
\* Executor(component, FixedInputGenerator(sequence), termination, track)
SyncConfig(n, tasks, st, ins, outs, term, sequence, track) ==
    [name |-> n, tasks |-> tasks, state |-> st, outputs |-> outs, term |-> term,
     seed |-> <<>>, max_workers |-> 0, generator |-> FixedGenerator(0, sequence),
     type |-> "synchronous", inputs |-> ins, track_task_order |-> track]

\* the orders a sequence can be declared in
Orderings(seq) ==
    { [k \in 1 .. Len(seq) |-> seq[f[k]]] :
        f \in { g \in [1 .. Len(seq) -> 1 .. Len(seq)] :
                  \A i, j \in 1 .. Len(seq) : i # j => g[i] # g[j] } }

\* A writes state.a = 1, B (depends_on A) state.b = state.a + 1, C
\* (depends_on B) state.c = state.b + 1, declared in every order
ChainTasks ==
    << SyncTask("A", <<>>, << SetState("a", 1) >>),
       SyncTask("B", << "A" >>, << SuccState("b", "a") >>),
       SyncTask("C", << "B" >>, << SuccState("c", "b") >>) >>

ChainConfigs ==
    { SyncConfig("chain", tasks, EmptyDict, <<>>, <<>>, << MaxRounds(1) >>,
                 << EmptyDict >>, track) :
        tasks \in Orderings(ChainTasks), track \in BOOLEAN }

\* the records the counter is fed: inc = 1, 2, 3, ...
IncRecords == [k \in 1 .. MaxRoundsBound |-> [inc |-> k]]

\* state {count: 0}, input inc, one task adding inputs.inc to state.count and
\* copying it to outputs.count; MaxRounds(n) with n records, and with one
\* record less than rounds asked for
CounterConfigs ==
    { SyncConfig("counter",
                 << SyncTask("add", <<>>, << AddInput("count", "inc"),
                                             OutState("count", "count") >>) >>,
                 [count |-> 0], << "inc" >>, << "count" >>, << MaxRounds(n) >>,
                 SubSeq(IncRecords, 1, m), FALSE) :
        n \in 1 .. MaxRoundsBound, m \in 1 .. MaxRoundsBound }

\* the second record lacks the declared input extra
MissingInputConfig ==
    SyncConfig("missing_input",
               << SyncTask("add", <<>>, << AddInput("count", "inc"),
                                           OutState("count", "count") >>) >>,
               [count |-> 0], << "inc", "extra" >>, << "count" >>, << MaxRounds(3) >>,
               << [inc |-> 1, extra |-> 0], [inc |-> 2], [inc |-> 3, extra |-> 0] >>,
               FALSE)

\* the first record already lacks a declared input
MissingFirstConfig ==
    SyncConfig("missing_first",
               << SyncTask("mark", <<>>, << SetState("seen", 1), SetOut("o", 1) >>) >>,
               [seen |-> 0], << "inc" >>, << "o" >>, << MaxRounds(2) >>,
               << EmptyDict, [inc |-> 1] >>, TRUE)

\* the failing round is the n-th: inputs.inc is None there, so the second
\* task raises after the first task and its own first statement have written
FailingRoundConfigs ==
    { SyncConfig("failing_round",
                 << SyncTask("late", << "early" >>,
                             << SetOut("o", 2), AddInput("count", "inc"),
                                SetState("after", 1) >>),
                    SyncTask("early", <<>>, << IncState("rounds") >>) >>,
                 [count |-> 0, rounds |-> 0, after |-> 0], << "inc" >>, << "o" >>,
                 << MaxRounds(3) >>,
                 [k \in 1 .. 3 |-> [inc |-> IF k = n THEN NoneValue ELSE k]], track) :
        n \in 1 .. 3, track \in BOOLEAN }

\* the counter under StateCondition(state['count'] > 2), from a count below
\* or above the bound, and under a StateCondition over a key the state lacks
SyncStateConditionConfigs ==
    { SyncConfig("sync_state_condition",
                 << SyncTask("add", <<>>, << AddInput("count", "inc"),
                                             OutState("count", "count") >>) >>,
                 [count |-> c0], << "inc" >>, << "count" >>, << StateCond(Gt(key, 2)) >>,
                 IncRecords, FALSE) :
        c0 \in {0, 5}, key \in {"count", "absent"} }

\* a synchronous task that calls emit_event, which its namespace lacks
SyncEmitConfig ==
    SyncConfig("sync_emit",
               << SyncTask("t", <<>>, << SetState("x", 1), Emit("e", 0, 0) >>) >>,
               [x |-> 0], <<>>, <<>>, << MaxRounds(1) >>, << EmptyDict >>, FALSE)

\* components whose construction fails
RejectedConfigs ==
    { SyncConfig("rejected", tasks, [x |-> 0], <<>>, <<>>, << MaxRounds(1) >>,
                 << EmptyDict >>, FALSE) :
        tasks \in { << SyncTask("A", << "A" >>, << SetState("x", 1) >>) >>,
                    << SyncTask("A", << "Z" >>, << SetState("x", 1) >>) >>,
                    << SyncTask("A", << "B" >>, << SetState("x", 1) >>),
                       SyncTask("B", << "A" >>, << SetState("x", 2) >>) >> } }

SyncConfigs ==
    ChainConfigs \cup CounterConfigs \cup FailingRoundConfigs \cup RejectedConfigs
    \cup SyncStateConditionConfigs
    \cup {MissingInputConfig, MissingFirstConfig, SyncEmitConfig}

\* tasks that emit on the start event: A two events with equal delay and
\* priority, alone (run inline) or next to B (run in the pool); X and Y
\* record which of A's events came last
BurstConfigs ==
    { Config("burst",
             << Task("A", OnEvent("start"), NoExpr, << Emit("x", 2, 0), Emit("y", 2, 0) >>),
                Task("X", OnEvent("x"), NoExpr, << SetState("last", 1) >>),
                Task("Y", OnEvent("y"), NoExpr, << SetState("last", 2) >>) >>,
             [last |-> 0], <<>>, << EmptyQueue >>, <<>>, 2, NoGenerator) }
    \cup
    { Config("burst",
             << Task("A", OnEvent("start"), NoExpr, << Emit("x", 2, 0), Emit("y", 2, 0) >>),
                Task("B", OnEvent("start"), NoExpr, << Emit("y", 2, 1), Emit("x", 0, 0) >>),
                Task("X", OnEvent("x"), NoExpr, << SetState("last", 1) >>),
                Task("Y", OnEvent("y"), NoExpr, << SetState("last", 2) >>) >>,
             [last |-> 0], <<>>, << EmptyQueue >>, <<>>, w, NoGenerator) : w \in 1 .. 2 }

\* tasks on the start event behind a guard that raises, a guard over
\* state.v and no guard, next to a task without a trigger; the unguarded
\* task emits a later event
GuardedConfigs ==
    { Config("guarded",
             << Task("S", OnEvent("start"), Gt("absent", 0), << SetState("s", 1) >>),
                Task("U", NoTrigger, NoExpr, << SetState("u", 1) >>),
                Task("V", OnEvent("start"), Gt("v", 0), << SetState("seen", 1) >>),
                Task("W", OnEvent("start"), NoExpr,
                     << SetState("w", 1), Emit("next", 2, 0) >>) >>,
             [v |-> v0], <<>>, << EmptyQueue >>, <<>>, 2, NoGenerator) : v0 \in 0 .. 1 }

\* ImmediateTriggers with guards: I runs when state.ready > 0, R has a guard
\* over a key the state lacks; S sets ready on the start event and emits
\* next, so a later event reaches selection when the guard of I is true
GuardedImmediateConfigs ==
    { Config("guarded_immediate",
             << Task("I", Immediate, Gt("ready", 0), << SetState("ran", 1) >>),
                Task("R", Immediate, Gt("absent", 0), << SetState("bad", 1) >>),
                Task("S", OnEvent("start"), NoExpr,
                     << SetState("ready", 1), Emit("next", 2, 0) >>),
                Task("N", OnEvent("next"), NoExpr, << SetState("seen", 1) >>) >>,
             [ready |-> r0, ran |-> 0, bad |-> 0, seen |-> 0], <<>>, << EmptyQueue >>,
             <<>>, 2, NoGenerator) :
        r0 \in 0 .. 1 }

Configs ==
    {TicksConfig, PingPongConfig, EdgeConfig, UpDownConfig, MissingKeyConfig, EvalErrorConfig,
     ImmediateConfig, ImmediateInputConfig, BackwardsConfig}
    \cup IsolationConfigs \cup PartialConfigs \cup DisjointConfigs
    \cup NoTriggerConfigs \cup MixedConfigs \cup FailingPeriodicConfigs
    \cup StateConditionConfigs \cup CompositeConfigs \cup BurstConfigs
    \cup GuardedConfigs \cup GuardedImmediateConfigs
    \cup SyncConfigs

\* PeriodicTrigger(0) under MaxTime(1.0), and a task that answers its own
\* event with delay 0 next to a periodic task, under MaxTime(1.0)
NoDelayConfigs ==
    { Config("zero_interval",
             << Task("P", Periodic(0), NoExpr, << SetState("x", 1) >>) >>,
             [x |-> 0], <<>>, << MaxTime(2) >>, <<>>, 2, NoGenerator),
      Config("zero_delay",
             << Task("tick", Periodic(1), NoExpr, << Emit("again", 0, 0) >>),
                Task("E", OnEvent("again"), NoExpr, << Emit("again", 0, 0) >>) >>,
             EmptyDict, <<>>, << MaxTime(2) >>, <<>>, 2, NoGenerator) }

\* an interval whose third multiple is no float: the sum of last_execution
\* and the interval is rounded, as 0.1 + 0.2 is in Python
DriftInterval == 2 ^ (MantissaBits - 1) + 1

\* one task, PeriodicTrigger(DriftInterval), state.n += 1, under MaxTime
\* and under MaxEvents
DriftConfigs ==
    { Config("drift",
             << Task("P", Periodic(DriftInterval), NoExpr, << IncState("n") >>) >>,
             [n |-> 0], <<>>, << term >>, <<>>, 2, NoGenerator) :
        term \in {MaxTime(8 * DriftInterval), MaxEvents(Horizon)} }

----------------------------------------------------------------------------
(* parser.py: ComponentParser.parse_dict on a component definition.        *)

\* a value of the definition: a string, a dict with the keys given, or a number
Text(s) == [is |-> "str", text |-> s, keys |-> <<>>]
Dict(keys) == [is |-> "dict", text |-> "", keys |-> keys]
Number == [is |-> "int", text |-> "", keys |-> <<>>]

\* str.strip() on the strings of the definitions
strip(s) ==
    CASE s = " " -> ""
      [] s = " in " -> "in"
      [] s = " out " -> "out"
      [] s = "Asynchronous " -> "Asynchronous"
      [] s = "asynchronous " -> "asynchronous"
      [] OTHER -> s

\* str.lower() on the strings of the definitions
lower(s) ==
    CASE s = "Asynchronous " -> "asynchronous "
      [] s = "SYNCHRONOUS" -> "synchronous"
      [] OTHER -> s

REQUIRED_COMPONENT_FIELDS == {"name", "type", "state", "inputs", "outputs", "tasks"}
VALID_COMPONENT_TYPES == {"synchronous", "asynchronous"}

\* the key a well-formed trigger of each type carries besides 'type'
TriggerArgument(type) ==
    CASE type = "periodic" -> "interval"
      [] type = "event" -> "event"
      [] type = "condition" -> "condition"
      [] OTHER -> "type"

\* the trigger objects of a task: every type, with and without its argument
\* and without 'type'
TriggerForms ==
    { [fields |-> f, type |-> t] :
        t \in {"periodic", "event", "condition", "immediate", "cron"},
        f \in {{}, {"type"}, {"type", "interval"}, {"type", "event"},
               {"type", "condition"}} }

NoTriggerForm == [fields |-> {}, type |-> ""]

\* a task object: the keys it has and their values
TaskForm(fields, name, code, depends_on, trigger) ==
    [fields |-> fields, name |-> name, code |-> code, depends_on |-> depends_on,
     trigger |-> trigger]

\* task objects without a trigger, with and without name and code
UntriggeredForms ==
    { TaskForm(f, n, c, d, NoTriggerForm) :
        f \in SUBSET {"name", "code"}, n \in {"t", " "},
        c \in {"pass", "x = = 1"}, d \in {<<>>, <<"u">>} }

\* task objects with a trigger object
TriggeredForms ==
    { TaskForm({"name", "code", "trigger"}, "t", "pass", <<>>, g) : g \in TriggerForms }

OtherTask == TaskForm({"name", "code"}, "u", "pass", <<>>, NoTriggerForm)

\* the task lists of the definitions
TaskLists ==
    {<<>>, <<OtherTask, OtherTask>>}
    \cup { <<f>> : f \in UntriggeredForms \cup TriggeredForms }
    \cup { <<OtherTask, f>> : f \in UntriggeredForms \cup TriggeredForms }

\* the inputs and outputs lists of the definitions
ItemLists(word) ==
    { <<>>, <<Text(word)>>, <<Dict(<<"a">>)>>, <<Dict(<<"a", "b">>)>>, <<Dict(<<>>)>>,
      <<Number>>, <<Text("x"), Dict(<<"a", "b">>)>> }

\* the component definitions parse_dict is called with
Documents ==
    [fields : {REQUIRED_COMPONENT_FIELDS, REQUIRED_COMPONENT_FIELDS \ {"tasks"}},
     name : {Text("c"), Text(" ")},
     type : {Text("synchronous"), Text("Asynchronous "), Text("parallel"), Number},
     inputs : ItemLists(" in "),
     outputs : ItemLists(" out "),
     tasks : TaskLists]

\* no definition has been handed over yet
NoDocument ==
    [fields |-> {}, name |-> Number, type |-> Number, inputs |-> <<>>,
     outputs |-> <<>>, tasks |-> <<>>]

\* what a step of the parser gives: the exception it raises or a value
Raises(kind) == [raises |-> kind, value |-> <<>>]
Returns(value) == [raises |-> "none", value |-> value]

\* parse_dict has not been called
NotParsed == [kind |-> "none", type |-> "", inputs |-> <<>>, outputs |-> <<>>,
              tasks |-> <<>>]

\* parse_dict raised an exception of this class
ParseRaised(kind) == [kind |-> kind, type |-> "", inputs |-> <<>>, outputs |-> <<>>,
                      tasks |-> <<>>]

\* ComponentParser._validate_structure, for a dict with a 'component' dict
validate_structure(d) ==
    IF REQUIRED_COMPONENT_FIELDS \subseteq d.fields THEN Returns(<<>>)
    ELSE Raises("ValidationError")

\* ComponentParser._extract_name
extract_name(d) ==
    IF d.name.is # "str" \/ strip(d.name.text) = "" THEN Raises("ValidationError")
    ELSE Returns(strip(d.name.text))

\* ComponentParser._extract_type: the message of the ValidationError names
\* ComponentParse, which is not defined
extract_type(d) ==
    IF d.type.is # "str" THEN Raises("ValidationError")
    ELSE IF strip(lower(d.type.text)) \notin VALID_COMPONENT_TYPES THEN Raises("NameError")
    ELSE Returns(strip(lower(d.type.text)))

\* the loop of _extract_inputs and of _extract_outputs: the raise for a dict
\* of another size than one names ValdiationError, which is not defined
RECURSIVE ExtractItems(_, _, _)
ExtractItems(items, i, names) ==
    IF i > Len(items) THEN Returns(names)
    ELSE IF items[i].is = "str"
         THEN ExtractItems(items, i + 1, Append(names, strip(items[i].text)))
    ELSE IF items[i].is = "dict"
         THEN IF Len(items[i].keys) # 1 THEN Raises("NameError")
              ELSE ExtractItems(items, i + 1, Append(names, strip(items[i].keys[1])))
    ELSE Raises("ValidationError")

\* ComponentParser._extract_inputs
extract_inputs(d) == ExtractItems(d.inputs, 1, <<>>)

\* ComponentParser._extract_outputs
extract_outputs(d) == ExtractItems(d.outputs, 1, <<>>)

\* the trigger branch of _extract_tasks: the class of the trigger built, or
\* the exception: ConditionTrigger takes condition_code and is called with
\* condition=, and the message for an unknown type names trigger-type
ExtractTrigger(g) ==
    IF "type" \notin g.fields THEN Raises("ValidationError")
    ELSE IF g.type = "periodic"
         THEN IF "interval" \notin g.fields THEN Raises("ValidationError")
              ELSE Returns("PeriodicTrigger")
    ELSE IF g.type = "event"
         THEN IF "event" \notin g.fields THEN Raises("ValidationError")
              ELSE Returns("EventTrigger")
    ELSE IF g.type = "condition"
         THEN IF "condition" \notin g.fields THEN Raises("ValidationError")
              ELSE Raises("TypeError")
    ELSE IF g.type = "immediate" THEN Returns("ImmediateTrigger")
    ELSE Raises("NameError")

\* Task.__init__: compile() of the code, TaskError for a SyntaxError
CompileTask(code) == IF code = "x = = 1" THEN Raises("TaskError") ELSE Returns(code)

\* the loop of _extract_tasks over the task objects
RECURSIVE ExtractTasksLoop(_, _, _)
ExtractTasksLoop(tasks_data, i, tasks) ==
    IF i > Len(tasks_data) THEN Returns(tasks)
    ELSE LET task_data == tasks_data[i]
             task_name == strip(task_data.name)
             trigger == IF "trigger" \in task_data.fields
                        THEN ExtractTrigger(task_data.trigger)
                        ELSE Returns("none")
         IN  IF "name" \notin task_data.fields THEN Raises("NameError")
             ELSE IF "code" \notin task_data.fields THEN Raises("NameError")
             ELSE IF task_name = "" THEN Raises("ValidationError")
             ELSE IF \E k \in 1 .. Len(tasks) : tasks[k].name = task_name
                  THEN Raises("ValidationError")
             ELSE IF CompileTask(task_data.code).raises # "none"
                  THEN CompileTask(task_data.code)
             ELSE IF trigger.raises # "none" THEN trigger
             ELSE ExtractTasksLoop(tasks_data, i + 1,
                      Append(tasks, [name |-> task_name,
                                     depends_on |-> task_data.depends_on,
                                     trigger |-> trigger.value]))

\* ComponentParser._extract_tasks
extract_tasks(d) ==
    IF d.tasks = <<>> THEN Raises("ValidationError")
    ELSE ExtractTasksLoop(d.tasks, 1, <<>>)

\* ComponentParser.parse_dict: the steps in the order of the code, then the
\* constructor of the component, whose _validate_tasks raises ComponentError
parse_dict(d) ==
    IF validate_structure(d).raises # "none"
    THEN ParseRaised(validate_structure(d).raises)
    ELSE IF extract_name(d).raises # "none" THEN ParseRaised(extract_name(d).raises)
    ELSE IF extract_type(d).raises # "none" THEN ParseRaised(extract_type(d).raises)
    ELSE IF extract_inputs(d).raises # "none" THEN ParseRaised(extract_inputs(d).raises)
    ELSE IF extract_outputs(d).raises # "none" THEN ParseRaised(extract_outputs(d).raises)
    ELSE IF extract_tasks(d).raises # "none" THEN ParseRaised(extract_tasks(d).raises)
    ELSE IF validate_tasks(extract_tasks(d).value) # "ok" THEN ParseRaised("ComponentError")
    ELSE [kind |-> "Component", type |-> extract_type(d).value,
          inputs |-> extract_inputs(d).value, outputs |-> extract_outputs(d).value,
          tasks |-> extract_tasks(d).value]

----------------------------------------------------------------------------
(* event_executor.py: the helpers of EventDrivenExecutor.                  *)

NoEvent == Event(0, "", 0, "empty", "none")
NoError == [kind |-> "none", task |-> "none"]
\* no call has been made on the SimulationTime yet
NoCall == [n |-> 0, op |-> "none", arg |-> 0, before |-> 0, raised |-> FALSE]

\* _schedule_periodic_tasks: one periodic_<task> event at time 0 per task
\* with a PeriodicTrigger, in declared order
RECURSIVE SchedulePeriodic(_, _, _)
SchedulePeriodic(tasks, q, c) ==
    IF tasks = <<>> THEN [queue |-> q, counter |-> c]
    ELSE LET t == Head(tasks)
             r == IF t.trigger.type = "periodic"
                  THEN QueuePush(q, c, Event(0, "periodic_" \o t.name, 0, t.name, "none"))
                  ELSE [queue |-> q, counter |-> c]
         IN  SchedulePeriodic(Tail(tasks), r.queue, r.counter)

\* _schedule_input_generation
ScheduleInputGeneration(gen, q, c) ==
    IF gen.on /\ gen.interval # 0
    THEN QueuePush(q, c, Event(0, "_generate_input", 0, "round", "none"))
    ELSE [queue |-> q, counter |-> c]

\* a variant that stamps the emitted events with the current time alone
RECURSIVE SchedulePendingNoDelay(_, _, _, _, _)
SchedulePendingNoDelay(pending, source_task, now, q, c) ==
    IF pending = <<>> THEN [queue |-> q, counter |-> c]
    ELSE LET e == Head(pending)
             r == QueuePush(q, c, Event(now, e.name, e.priority, e.data, source_task))
         IN  SchedulePendingNoDelay(Tail(pending), source_task, now, r.queue, r.counter)

\* a variant that pushes the emitted events from the last to the first
RECURSIVE SchedulePendingReversed(_, _, _, _, _)
SchedulePendingReversed(pending, source_task, now, q, c) ==
    IF pending = <<>> THEN [queue |-> q, counter |-> c]
    ELSE LET e == pending[Len(pending)]
             r == QueuePush(q, c, Event(now + e.delay, e.name, e.priority, e.data,
                                        source_task))
         IN  SchedulePendingReversed(SubSeq(pending, 1, Len(pending) - 1), source_task,
                                     now, r.queue, r.counter)

\* _schedule_pending_events(pending_events, source_task)
RECURSIVE SchedulePending(_, _, _, _, _)
SchedulePending(pending, source_task, now, q, c) ==
    IF pending = <<>> THEN [queue |-> q, counter |-> c]
    ELSE LET e == Head(pending)
             r == QueuePush(q, c, Event(float_add(now, e.delay), e.name, e.priority,
                                        e.data, source_task))
         IN  SchedulePending(Tail(pending), source_task, now, r.queue, r.counter)

\* _should_terminate
ShouldTerminate ==
    CompositeShouldTerminate(cfg.term, event_count, state, current_time, event_count,
                             event_queue)

\* a variant in which a guard that raises counts as True
GuardPassesOnError(task, st) ==
    IF task.condition.kind = "none" THEN TRUE ELSE Eval(task.condition, st) # "F"

\* the guard of _get_activated_tasks: a guard that raises counts as False
GuardPasses(task, st) ==
    IF task.condition.kind = "none" THEN TRUE ELSE Eval(task.condition, st) = "T"

\* a variant that pushes the next periodic event of unguarded tasks only
PushNextPeriodicUnguarded(task, r, q, c) ==
    IF task.trigger.type = "periodic" /\ r.result /\ task.condition.kind = "none"
    THEN QueuePush(q, c, Event(get_next_time(task.trigger, r.latch),
                               "periodic_" \o task.name, 0, task.name, "none"))
    ELSE [queue |-> q, counter |-> c]

\* the PeriodicTrigger branch of _get_activated_tasks: when the trigger
\* reported true, the event periodic_<task> is pushed for get_next_time,
\* before the guard is evaluated; r is what should_activate gave
PushNextPeriodic(task, r, q, c) ==
    IF task.trigger.type = "periodic" /\ r.result
    THEN QueuePush(q, c, Event(get_next_time(task.trigger, r.latch),
                               "periodic_" \o task.name, 0, task.name, "none"))
    ELSE [queue |-> q, counter |-> c]

\* a variant in which a guard that raises ends the loop over the tasks
RECURSIVE GetActivatedLoopStops(_, _, _, _, _, _)
GetActivatedLoopStops(i, tasks, ev, st, now, acc) ==
    IF i > Len(tasks) THEN acc
    ELSE LET task == tasks[i]
             r == should_activate(task.trigger, acc.latch[i], ev.name, st, now)
             pushed == PushNextPeriodic(task, r, acc.queue, acc.counter)
             should_run == r.result /\ GuardPasses(task, st)
             stops == r.result /\ task.condition.kind # "none"
                               /\ Eval(task.condition, st) = "ERR"
         IN  GetActivatedLoopStops(IF stops THEN Len(tasks) + 1 ELSE i + 1,
                 tasks, ev, st, now,
                 [latch |-> [acc.latch EXCEPT ![i] = r.latch],
                  queue |-> pushed.queue,
                  counter |-> pushed.counter,
                  activated |-> IF should_run THEN Append(acc.activated, i)
                                ELSE acc.activated,
                  calls |-> Append(acc.calls,
                                   [result |-> r.result, eval |-> r.eval,
                                    before |-> acc.latch[i]])
                            \o IF stops
                               THEN [k \in 1 .. Len(tasks) - i |->
                                       [result |-> FALSE, eval |-> "n/a",
                                        before |-> acc.latch[i + k]]]
                               ELSE <<>>])

\* a variant in which a task rejected by its guard keeps the latch its
\* trigger had before the call
RECURSIVE GetActivatedLoopKeepsLatch(_, _, _, _, _, _)
GetActivatedLoopKeepsLatch(i, tasks, ev, st, now, acc) ==
    IF i > Len(tasks) THEN acc
    ELSE LET task == tasks[i]
             r == should_activate(task.trigger, acc.latch[i], ev.name, st, now)
             pushed == PushNextPeriodic(task, r, acc.queue, acc.counter)
             should_run == r.result /\ GuardPasses(task, st)
         IN  GetActivatedLoopKeepsLatch(i + 1, tasks, ev, st, now,
                 [latch |-> [acc.latch EXCEPT ![i] = IF r.result /\ ~should_run
                                                     THEN acc.latch[i] ELSE r.latch],
                  queue |-> pushed.queue,
                  counter |-> pushed.counter,
                  activated |-> IF should_run THEN Append(acc.activated, i)
                                ELSE acc.activated,
                  calls |-> Append(acc.calls,
                                   [result |-> r.result, eval |-> r.eval,
                                    before |-> acc.latch[i]])])

\* _get_activated_tasks(event): the loop over the tasks in declared order;
\* acc carries the latches, the queue, the activated list and the history
RECURSIVE GetActivatedLoop(_, _, _, _, _, _)
GetActivatedLoop(i, tasks, ev, st, now, acc) ==
    IF i > Len(tasks) THEN acc
    ELSE LET task == tasks[i]
             r == should_activate(task.trigger, acc.latch[i], ev.name, st, now)
             pushed == PushNextPeriodic(task, r, acc.queue, acc.counter)
             should_run == r.result /\ GuardPasses(task, st)
         IN  GetActivatedLoop(i + 1, tasks, ev, st, now,
                 [latch |-> [acc.latch EXCEPT ![i] = r.latch],
                  queue |-> pushed.queue,
                  counter |-> pushed.counter,
                  activated |-> IF should_run THEN Append(acc.activated, i)
                                ELSE acc.activated,
                  calls |-> Append(acc.calls,
                                   [result |-> r.result, eval |-> r.eval,
                                    before |-> acc.latch[i]])])

get_activated_tasks(tasks, ev, st, now, l, q, c) ==
    GetActivatedLoop(1, tasks, ev, st, now,
        [latch |-> l, queue |-> q, counter |-> c, activated |-> <<>>, calls |-> <<>>])

\* the private copies _execute_task takes under state_lock
Snapshot == Context(initial_inputs, current_outputs, state)

\* self.component.state.update(context.state)
MergeState(st, ctx) == DictUpdate(st, ctx.state)

\* self.component.current_outputs.update(context.outputs)
MergeOutputs(outs, ctx) == DictUpdate(outs, ctx.outputs)

\* log.add_round(...) of run(): the record appended for the current event
\* a variant that keeps one record only, the latest
add_round_overwrite(rounds_, record) ==
    IF rounds_ = <<>> THEN << record >> ELSE [rounds_ EXCEPT ![Len(rounds_)] = record]

\* ExecutionLog.add_round: self.rounds.append(record)
add_round(rounds_, record) == Append(rounds_, record)

RoundRecord(n, ev, inputs, outs, st, acts) ==
    [round_number |-> n, event |-> ev.name, time |-> ev.time, inputs |-> inputs,
     outputs |-> outs, state |-> st,
     task_order |-> [k \in 1 .. Len(acts) |-> cfg.tasks[acts[k]].name]]

\* history of one call of _get_activated_tasks: the event, the state the
\* triggers were shown, what each trigger reported and the tasks activated
SelectionRecord(n, ev, st, sel) ==
    [n |-> n, time |-> ev.time, name |-> ev.name, state |-> st, calls |-> sel.calls,
     activated |-> sel.activated, outputs |-> current_outputs]

\* a variant in which the merges run although the code raised
TryBodyCompletesAlways(ctx) == TRUE

\* the try block of _execute_task runs past exec() to the two merges only
\* when the task's code did not raise
TryBodyCompletes(ctx) == ~ctx.failed

\* a variant that takes the newest entry
LastError(q) == q[Len(q)]

\* error_queue.get() of _execute_tasks_parallel: the oldest entry
FirstError(q) == Head(q)

----------------------------------------------------------------------------
(* EventDrivenExecutor: construction and run().                            *)

RECURSIVE SeedQueue(_, _, _)
SeedQueue(seed, q, c) ==
    IF seed = <<>> THEN [queue |-> q, counter |-> c]
    ELSE LET r == QueuePush(q, c, Head(seed))
         IN  SeedQueue(Tail(seed), r.queue, r.counter)

\* Component.__init__ and EventDrivenExecutor.__init__, then the events the
\* caller pushed on executor.event_queue before run()
Constructed(label) ==
    /\ state = cfg.state
    /\ current_outputs = [o \in Range(cfg.outputs) |-> NoneValue]
    /\ initial_inputs = EmptyDict
    /\ LET r == SeedQueue(cfg.seed, <<>>, 0)
       IN  event_queue = r.queue /\ counter = r.counter
    /\ current_time = 0
    /\ event_count = 0
    /\ input_round = 0
    /\ log = <<>>
    /\ latch = [i \in 1 .. Len(cfg.tasks) |-> InitLatch]
    /\ pc = label
    /\ current_round = 0
    /\ round_inputs = EmptyDict
    /\ ordered_tasks = <<>>
    /\ rounds = <<>>
    /\ start_time = 0
    /\ call = NoCall
    /\ reruns = <<>>
    /\ document = NoDocument
    /\ parsed = NotParsed
    /\ event = NoEvent
    /\ activated = <<>>
    /\ workers = <<>>
    /\ error_queue = <<>>
    /\ completed = <<>>
    /\ raised = NoError
    /\ selections = <<>>
    /\ popped = <<>>

Constructing == Constructed(IF cfg.type = "asynchronous" THEN "start" ELSE "new")

Init == cfg \in Configs /\ Constructing

\* a variant that pushes no wake-up event
PushStartNever(q, c) == [queue |-> q, counter |-> c]

\* if self.event_queue.is_empty(): push(Event(time=0.0, name="start"))
PushStart(q, c) ==
    IF is_empty(q)
    THEN QueuePush(q, c, Event(0, "start", 0, "empty", "none"))
    ELSE [queue |-> q, counter |-> c]

\* run(), before the loop
Start ==
    /\ pc = "start"
    /\ LET r1 == SchedulePeriodic(cfg.tasks, event_queue, counter)
           r2 == ScheduleInputGeneration(cfg.generator, r1.queue, r1.counter)
           r3 == PushStart(r2.queue, r2.counter)
       IN  /\ event_queue' = r3.queue
           /\ counter' = r3.counter
    /\ pc' = "loop"
    /\ UNCHANGED <<syncVars, timeVars, runVars>>
    /\ UNCHANGED <<cfg, state, current_outputs, initial_inputs, current_time,
                   event_count, input_round, log, latch, event, activated, workers,
                   error_queue, completed, raised, selections, popped>>

\* the loop condition holds no longer: run() returns the log
Terminate ==
    /\ pc = "loop"
    /\ ShouldTerminate = "T"
    /\ pc' = "done"
    /\ UNCHANGED <<syncVars, timeVars, runVars>>
    /\ UNCHANGED <<cfg, state, current_outputs, initial_inputs, event_queue, counter,
                   current_time, event_count, input_round, log, latch, event,
                   activated, workers, error_queue, completed, raised, selections,
                   popped>>

\* the loop condition raises: StateCondition wraps the failure of its
\* expression in RuntimeError, which run() does not catch
TerminationRaises ==
    /\ pc = "loop"
    /\ ShouldTerminate = "ERR"
    /\ raised' = [kind |-> "RuntimeError", task |-> "none"]
    /\ pc' = "error"
    /\ UNCHANGED <<syncVars, timeVars, runVars>>
    /\ UNCHANGED <<cfg, state, current_outputs, initial_inputs, event_queue, counter,
                   current_time, event_count, input_round, log, latch, event,
                   activated, workers, error_queue, completed, selections, popped>>

\* a variant that counts the pop that found the queue empty as an event
QueueExhaustedCounts ==
    /\ pc = "loop"
    /\ ShouldTerminate = "F"
    /\ is_empty(event_queue)
    /\ pc' = "done"
    /\ event_count' = event_count + 1
    /\ UNCHANGED <<syncVars, timeVars, runVars>>
    /\ UNCHANGED <<cfg, state, current_outputs, initial_inputs, event_queue, counter,
                   current_time, input_round, log, latch, event,
                   activated, workers, error_queue, completed, raised, selections,
                   popped>>

\* pop() returned None: break
QueueExhausted ==
    /\ pc = "loop"
    /\ ShouldTerminate = "F"
    /\ is_empty(event_queue)
    /\ pc' = "done"
    /\ UNCHANGED <<syncVars, timeVars, runVars>>
    /\ UNCHANGED <<cfg, state, current_outputs, initial_inputs, event_queue, counter,
                   current_time, event_count, input_round, log, latch, event,
                   activated, workers, error_queue, completed, raised, selections,
                   popped>>

\* the event pop() returns at the top of an iteration, and the heap it leaves
NextEntry == QueuePop(event_queue)
NextEvent == NextEntry.item[4]

\* an iteration starts: the loop condition is false and pop() returned an event
CanPop ==
    /\ pc = "loop"
    /\ ShouldTerminate = "F"
    /\ ~is_empty(event_queue)
    /\ event_count < MaxIterations

\* sim_time.advance_to(event.time) raises ValueError: the event lies in the past
TimeBackwards ==
    /\ CanPop
    /\ NextEvent.time < current_time
    /\ event_queue' = NextEntry.heap
    /\ event' = NextEvent
    /\ raised' = [kind |-> "ValueError", task |-> "none"]
    /\ pc' = "error"
    /\ UNCHANGED <<syncVars, timeVars, runVars>>
    /\ UNCHANGED <<cfg, state, current_outputs, initial_inputs, counter, current_time,
                   event_count, input_round, log, latch, activated, workers,
                   error_queue, completed, selections, popped>>

\* a variant that re-arms the generator at the current time
EmitInputRearmsNow(gen, now, q, c) ==
    LET r1 == QueuePush(q, c, Event(now, "input_ready", 0, "inputs", "none"))
    IN  IF gen.interval # 0
        THEN QueuePush(r1.queue, r1.counter,
                       Event(now, "_generate_input", 0, "round", "none"))
        ELSE r1

\* _generate_and_emit_input after generate() returned: the input event at the
\* current time, then the next _generate_input when input_interval is set
EmitInput(gen, now, q, c) ==
    LET r1 == QueuePush(q, c, Event(now, "input_ready", 0, "inputs", "none"))
    IN  IF gen.interval # 0
        THEN QueuePush(r1.queue, r1.counter,
                       Event(float_add(now, gen.interval), "_generate_input", 0,
                             "round", "none"))
        ELSE r1

\* the iteration for a _generate_input event: _generate_and_emit_input, continue
GenerateInput ==
    /\ CanPop
    /\ NextEvent.time >= current_time
    /\ NextEvent.name = "_generate_input"
    /\ event' = NextEvent
    /\ current_time' = NextEvent.time
    /\ event_count' = event_count + 1
    /\ LET gen == cfg.generator
           now == NextEvent.time
           round == input_round + 1
       IN  IF ~gen.on
           THEN /\ event_queue' = NextEntry.heap
                /\ pc' = "loop"
                /\ UNCHANGED <<input_round, initial_inputs, counter, raised>>
           ELSE IF round > Len(gen.sequence)
           THEN \* FixedInputGenerator.generate raises ValueError
                /\ input_round' = round
                /\ event_queue' = NextEntry.heap
                /\ raised' = [kind |-> "ComponentError", task |-> "none"]
                /\ pc' = "error"
                /\ UNCHANGED <<initial_inputs, counter>>
           ELSE LET r2 == EmitInput(gen, now, NextEntry.heap, counter)
                IN  /\ input_round' = round
                    /\ initial_inputs' = DictUpdate(initial_inputs, gen.sequence[round])
                    /\ event_queue' = r2.queue
                    /\ counter' = r2.counter
                    /\ pc' = "loop"
                    /\ UNCHANGED raised
    /\ UNCHANGED <<syncVars, timeVars, runVars>>
    /\ UNCHANGED <<cfg, state, current_outputs, log, latch, activated, workers,
                   error_queue, completed, selections, popped>>

\* an event that reaches task selection
CanDispatch ==
    /\ CanPop
    /\ NextEvent.time >= current_time
    /\ NextEvent.name # "_generate_input"

\* _get_activated_tasks(event) at the event's time
Selection ==
    get_activated_tasks(cfg.tasks, NextEvent, state, NextEvent.time, latch,
                        NextEntry.heap, counter)

\* the iteration when no task is activated: only the log record is added
DispatchNone ==
    /\ CanDispatch
    /\ Selection.activated = <<>>
    /\ event' = NextEvent
    /\ current_time' = NextEvent.time
    /\ event_count' = event_count + 1
    /\ latch' = Selection.latch
    /\ event_queue' = Selection.queue
    /\ counter' = Selection.counter
    /\ activated' = <<>>
    /\ selections' = Append(selections, SelectionRecord(event_count + 1, NextEvent, state, Selection))
    /\ log' = add_round(log, RoundRecord(event_count + 1, NextEvent, initial_inputs,
                                         current_outputs, state, <<>>))
    /\ workers' = <<>>
    /\ error_queue' = <<>>
    /\ completed' = <<>>
    /\ UNCHANGED <<syncVars, timeVars, runVars>>
    /\ UNCHANGED <<cfg, state, current_outputs, initial_inputs, input_round, pc, raised,
                   popped>>

\* the iteration when one task is activated: _execute_task runs inline on the
\* scheduler thread and raises TaskError itself when the task fails
DispatchInline ==
    /\ CanDispatch
    /\ Len(Selection.activated) = 1
    /\ LET sel == Selection
           t == sel.activated[1]
           task == cfg.tasks[t]
           ctx == Exec(task.code, Snapshot)
           now == NextEvent.time
       IN  /\ event' = NextEvent
           /\ current_time' = now
           /\ event_count' = event_count + 1
           /\ latch' = sel.latch
           /\ activated' = sel.activated
           /\ selections' = Append(selections, SelectionRecord(event_count + 1, NextEvent, state, sel))
           /\ workers' = << [task |-> t, pc |-> "finished", ctx |-> ctx] >>
           /\ IF ~TryBodyCompletes(ctx)
              THEN /\ raised' = [kind |-> "TaskError", task |-> task.name]
                   /\ pc' = "error"
                   /\ event_queue' = sel.queue
                   /\ counter' = sel.counter
                   /\ UNCHANGED <<state, current_outputs, log>>
              ELSE LET r == SchedulePending(ctx.pending, task.name, now, sel.queue,
                                            sel.counter)
                   IN  /\ state' = MergeState(state, ctx)
                       /\ current_outputs' = MergeOutputs(current_outputs, ctx)
                       /\ event_queue' = r.queue
                       /\ counter' = r.counter
                       /\ log' = add_round(log,
                              RoundRecord(event_count + 1, NextEvent, initial_inputs,
                                          MergeOutputs(current_outputs, ctx),
                                          MergeState(state, ctx), sel.activated))
                       /\ UNCHANGED <<raised, pc>>
    /\ error_queue' = <<>>
    /\ completed' = <<>>
    /\ UNCHANGED <<syncVars, timeVars, runVars>>
    /\ UNCHANGED <<cfg, initial_inputs, input_round, popped>>

IdleContext == Context(EmptyDict, EmptyDict, EmptyDict)

\* the iteration when two or more tasks are activated: each is submitted to
\* the ThreadPoolExecutor and run() waits for the pool to finish
DispatchParallel ==
    /\ CanDispatch
    /\ Len(Selection.activated) >= 2
    /\ event' = NextEvent
    /\ current_time' = NextEvent.time
    /\ event_count' = event_count + 1
    /\ latch' = Selection.latch
    /\ event_queue' = Selection.queue
    /\ counter' = Selection.counter
    /\ activated' = Selection.activated
    /\ selections' = Append(selections, SelectionRecord(event_count + 1, NextEvent, state, Selection))
    /\ workers' = [k \in 1 .. Len(Selection.activated) |->
                     [task |-> Selection.activated[k], pc |-> "queued",
                      ctx |-> IdleContext]]
    /\ error_queue' = <<>>
    /\ completed' = <<>>
    /\ pc' = "join"
    /\ UNCHANGED <<syncVars, timeVars, runVars>>
    /\ UNCHANGED <<cfg, state, current_outputs, initial_inputs, input_round, log, raised,
                   popped>>

----------------------------------------------------------------------------
(* _execute_task(task, event, error_queue) on a pool thread.               *)

InProgress == { k \in 1 .. Len(workers) :
                  workers[k].pc \in {"picked", "snapshot", "copied", "executed",
                                    "merge_state", "merged", "merge_outputs"} }

\* the thread of work item k is inside a `with self.state_lock:` block
HoldsStateLock(k) == workers[k].pc \in {"snapshot", "merge_state"}

\* the thread of work item k is inside the `with self.output_lock:` block
HoldsOutputLock(k) == workers[k].pc = "merge_outputs"

\* threading.Lock: acquire() returns only while no thread holds the lock
StateLockFree == \A j \in 1 .. Len(workers) : ~HoldsStateLock(j)
OutputLockFree == \A j \in 1 .. Len(workers) : ~HoldsOutputLock(j)

\* a pool thread takes the oldest work item not yet taken
WorkerPick(k) ==
    /\ pc = "join"
    /\ workers[k].pc = "queued"
    /\ \A j \in 1 .. k - 1 : workers[j].pc # "queued"
    /\ Cardinality(InProgress) < cfg.max_workers
    /\ workers' = [workers EXCEPT ![k].pc = "picked"]
    /\ UNCHANGED <<syncVars, timeVars, runVars>>
    /\ UNCHANGED <<cfg, state, current_outputs, initial_inputs, event_queue, counter,
                   current_time, event_count, input_round, log, latch, pc, event,
                   activated, error_queue, completed, raised, selections, popped>>

\* with self.state_lock: the thread enters the block of the snapshot
WorkerLockSnapshot(k) ==
    /\ pc = "join"
    /\ workers[k].pc = "picked"
    /\ StateLockFree
    /\ workers' = [workers EXCEPT ![k].pc = "snapshot"]
    /\ UNCHANGED <<syncVars, timeVars, runVars>>
    /\ UNCHANGED <<cfg, state, current_outputs, initial_inputs, event_queue, counter,
                   current_time, event_count, input_round, log, latch, pc, event,
                   activated, error_queue, completed, raised, selections, popped>>

\* the private copies of inputs, outputs and state, taken holding
\* state_lock only; the lock is released
WorkerSnapshot(k) ==
    /\ pc = "join"
    /\ workers[k].pc = "snapshot"
    /\ workers' = [workers EXCEPT ![k].pc = "copied", ![k].ctx = Snapshot]
    /\ UNCHANGED <<syncVars, timeVars, runVars>>
    /\ UNCHANGED <<cfg, state, current_outputs, initial_inputs, event_queue, counter,
                   current_time, event_count, input_round, log, latch, pc, event,
                   activated, error_queue, completed, raised, selections, popped>>

\* exec(task.compiled_code, ...); when it raises, the except branch puts
\* (task.name, e) on error_queue and the future finishes with None
WorkerExec(k) ==
    /\ pc = "join"
    /\ workers[k].pc = "copied"
    /\ LET task == cfg.tasks[workers[k].task]
           ctx == Exec(task.code, workers[k].ctx)
       IN  IF ~TryBodyCompletes(ctx)
           THEN /\ workers' = [workers EXCEPT ![k].pc = "finished", ![k].ctx = ctx]
                /\ error_queue' = Append(error_queue, task.name)
                /\ completed' = Append(completed, k)
           ELSE /\ workers' = [workers EXCEPT ![k].pc = "executed", ![k].ctx = ctx]
                /\ UNCHANGED <<error_queue, completed>>
    /\ UNCHANGED <<syncVars, timeVars, runVars>>
    /\ UNCHANGED <<cfg, state, current_outputs, initial_inputs, event_queue, counter,
                   current_time, event_count, input_round, log, latch, pc, event,
                   activated, raised, selections, popped>>

\* with self.state_lock: the thread enters the block of the state merge
WorkerLockState(k) ==
    /\ pc = "join"
    /\ workers[k].pc = "executed"
    /\ StateLockFree
    /\ workers' = [workers EXCEPT ![k].pc = "merge_state"]
    /\ UNCHANGED <<syncVars, timeVars, runVars>>
    /\ UNCHANGED <<cfg, state, current_outputs, initial_inputs, event_queue, counter,
                   current_time, event_count, input_round, log, latch, pc, event,
                   activated, error_queue, completed, raised, selections, popped>>

\* self.component.state.update(context.state); the lock is released
WorkerMergeState(k) ==
    /\ pc = "join"
    /\ workers[k].pc = "merge_state"
    /\ state' = MergeState(state, workers[k].ctx)
    /\ workers' = [workers EXCEPT ![k].pc = "merged"]
    /\ UNCHANGED <<syncVars, timeVars, runVars>>
    /\ UNCHANGED <<cfg, current_outputs, initial_inputs, event_queue, counter,
                   current_time, event_count, input_round, log, latch, pc, event,
                   activated, error_queue, completed, raised, selections, popped>>

\* with self.output_lock: the thread enters the block of the outputs merge
WorkerLockOutputs(k) ==
    /\ pc = "join"
    /\ workers[k].pc = "merged"
    /\ OutputLockFree
    /\ workers' = [workers EXCEPT ![k].pc = "merge_outputs"]
    /\ UNCHANGED <<syncVars, timeVars, runVars>>
    /\ UNCHANGED <<cfg, state, current_outputs, initial_inputs, event_queue, counter,
                   current_time, event_count, input_round, log, latch, pc, event,
                   activated, error_queue, completed, raised, selections, popped>>

\* self.component.current_outputs.update(context.outputs); the lock is
\* released, the pending events are returned and the future finishes
WorkerMergeOutputs(k) ==
    /\ pc = "join"
    /\ workers[k].pc = "merge_outputs"
    /\ current_outputs' = MergeOutputs(current_outputs, workers[k].ctx)
    /\ workers' = [workers EXCEPT ![k].pc = "finished"]
    /\ completed' = Append(completed, k)
    /\ UNCHANGED <<syncVars, timeVars, runVars>>
    /\ UNCHANGED <<cfg, state, initial_inputs, event_queue, counter, current_time,
                   event_count, input_round, log, latch, pc, event, activated,
                   error_queue, raised, selections, popped>>

AllFinished == \A k \in 1 .. Len(workers) : workers[k].pc = "finished"

\* the pool has shut down with an error on error_queue: TaskError names the
\* first one put there
JoinError ==
    /\ pc = "join"
    /\ AllFinished
    /\ error_queue # <<>>
    /\ raised' = [kind |-> "TaskError", task |-> FirstError(error_queue)]
    /\ error_queue' = Tail(error_queue)
    /\ pc' = "error"
    /\ UNCHANGED <<syncVars, timeVars, runVars>>
    /\ UNCHANGED <<cfg, state, current_outputs, initial_inputs, event_queue, counter,
                   current_time, event_count, input_round, log, latch, event,
                   activated, workers, completed, selections, popped>>

\* the orders in which as_completed can yield the futures: those already
\* finished when it is called come out of a set in any order, the others in
\* the order they finish
AsCompletedOrders(done) ==
    LET n == Len(done)
    IN  { ord \in [1 .. n -> Range(done)] :
            /\ \A i, j \in 1 .. n : i # j => ord[i] # ord[j]
            /\ \E k \in 0 .. n :
                 /\ \A i \in k + 1 .. n : ord[i] = done[i]
                 /\ { ord[i] : i \in 1 .. k } = { done[i] : i \in 1 .. k } }

\* all_pending_events scheduled in the order collected (an empty result is
\* skipped by SchedulePending itself)
RECURSIVE ScheduleAll(_, _, _, _, _)
ScheduleAll(ord, ws, now, q, c) ==
    IF ord = <<>> THEN [queue |-> q, counter |-> c]
    ELSE LET w == ws[Head(ord)]
             r == SchedulePending(w.ctx.pending, cfg.tasks[w.task].name, now, q, c)
         IN  ScheduleAll(Tail(ord), ws, now, r.queue, r.counter)

\* the pool has shut down without an error: the emitted events are
\* scheduled and run() appends the log record
JoinOk ==
    /\ pc = "join"
    /\ AllFinished
    /\ error_queue = <<>>
    /\ \E ord \in AsCompletedOrders(completed) :
         LET r == ScheduleAll(ord, workers, current_time, event_queue, counter)
         IN  /\ event_queue' = r.queue
             /\ counter' = r.counter
    /\ log' = add_round(log, RoundRecord(event_count, event, initial_inputs,
                                         current_outputs, state, activated))
    /\ pc' = "loop"
    /\ UNCHANGED <<syncVars, timeVars, runVars>>
    /\ UNCHANGED <<cfg, state, current_outputs, initial_inputs, current_time,
                   event_count, input_round, latch, event, activated, workers,
                   error_queue, completed, raised, selections, popped>>

----------------------------------------------------------------------------
(* component.py and executor.py: construction of a Component, the          *)
(* synchronous round and Executor.run().                                   *)

\* the variables only the event-driven executor and the bare objects use
eventVars == <<initial_inputs, event_queue, counter, current_time, event_count,
               input_round, latch, event, activated, workers, error_queue,
               completed, selections, popped>>

\* Component.__init__: _validate_tasks either passes or raises ComponentError
Construct ==
    /\ pc = "new"
    /\ IF validate_tasks(cfg.tasks) = "ok"
       THEN /\ pc' = "ready"
            /\ UNCHANGED raised
       ELSE /\ pc' = "error"
            /\ raised' = [kind |-> "ComponentError", at |-> "construction",
                          reason |-> validate_tasks(cfg.tasks)]
    /\ UNCHANGED <<cfg, state, current_outputs, log, eventVars, syncVars, timeVars, runVars>>

\* Executor.run(), before the loop
SyncRun ==
    /\ pc = "ready"
    /\ cfg.type = "synchronous"
    /\ current_round' = 0
    /\ log' = <<>>
    /\ pc' = "sync_loop"
    /\ UNCHANGED <<cfg, state, current_outputs, raised, eventVars, timeVars, runVars,
                   round_inputs, ordered_tasks, rounds>>

\* termination_condition.should_terminate(current_round, state, log): no
\* current_time, event_count or event_queue is passed
SyncShouldTerminate == CompositeShouldTerminate(cfg.term, current_round, state, 0, 0, <<>>)

\* the loop condition of Executor.run holds no longer
SyncTerminate ==
    /\ pc = "sync_loop"
    /\ SyncShouldTerminate = "T"
    /\ pc' = "done"
    /\ UNCHANGED <<cfg, state, current_outputs, log, raised, eventVars, syncVars,
                   timeVars, runVars>>

\* the loop condition of Executor.run raises RuntimeError
SyncTerminationRaises ==
    /\ pc = "sync_loop"
    /\ SyncShouldTerminate = "ERR"
    /\ raised' = [kind |-> "RuntimeError", at |-> "termination", round |-> current_round,
                  cause |-> "RuntimeError", task |-> "none"]
    /\ pc' = "error"
    /\ UNCHANGED <<cfg, state, current_outputs, log, eventVars, syncVars, timeVars, runVars>>

\* current_round += 1 and FixedInputGenerator.generate, which raises
\* ValueError past the end of its sequence
SyncGenerate ==
    /\ pc = "sync_loop"
    /\ SyncShouldTerminate = "F"
    /\ current_round' = current_round + 1
    /\ IF current_round + 1 > Len(cfg.generator.sequence)
       THEN /\ pc' = "error"
            /\ raised' = [kind |-> "ValueError", round |-> current_round + 1]
            /\ UNCHANGED round_inputs
       ELSE /\ pc' = "sync_execute"
            /\ round_inputs' = cfg.generator.sequence[current_round + 1]
            /\ UNCHANGED raised
    /\ UNCHANGED <<cfg, state, current_outputs, log, eventVars, timeVars, runVars,
                   ordered_tasks, rounds>>

\* Task.execute: the namespace holds inputs, outputs and state only, so a
\* call of emit_event raises
RECURSIVE TaskExecute(_, _)
TaskExecute(code, ctx) ==
    IF code = <<>> \/ ctx.failed THEN ctx
    ELSE TaskExecute(Tail(code),
                     IF Head(code).op = "emit" THEN [ctx EXCEPT !.failed = TRUE]
                     ELSE Step(Head(code), ctx))

\* a variant in which a task that raises leaves the mappings as it found them
RECURSIVE ExecuteTasksUndoes(_, _, _)
ExecuteTasksUndoes(order, i, acc) ==
    IF i > Len(order) \/ acc.ctx.failed THEN acc
    ELSE LET ran == TaskExecute(cfg.tasks[order[i]].code, acc.ctx)
         IN  ExecuteTasksUndoes(order, i + 1,
                                [ctx |-> IF ran.failed
                                         THEN [acc.ctx EXCEPT !.failed = TRUE]
                                         ELSE ran,
                                 executed |-> Append(acc.executed, order[i])])

\* for task in ordered_tasks: task.execute(context), on the one context that
\* holds the component's own mappings; stops at the first task that raises
RECURSIVE ExecuteTasks(_, _, _)
ExecuteTasks(order, i, acc) ==
    IF i > Len(order) \/ acc.ctx.failed THEN acc
    ELSE ExecuteTasks(order, i + 1,
                      [ctx |-> TaskExecute(cfg.tasks[order[i]].code, acc.ctx),
                       executed |-> Append(acc.executed, order[i])])

\* a variant that runs the tasks before it looks at the input record
execute_round_unchecked(input_values) ==
    LET r   == get_task_execution_order(cfg.tasks)
        run == ExecuteTasks(r.order, 1,
                            [ctx |-> Context(input_values, current_outputs, state),
                             executed |-> <<>>])
        missing == \E name \in Range(cfg.inputs) : name \notin DOMAIN input_values
    IN  [ok |-> ~missing /\ ~run.ctx.failed,
         error |-> IF missing THEN "ComponentError" ELSE "TaskError",
         order |-> r.order, executed |-> run.executed,
         state |-> run.ctx.state, outputs |-> run.ctx.outputs]

\* SynchronousComponent.execute_round(input_values): what it raises, the
\* order it computed, the tasks it ran and the mappings it leaves
execute_round(input_values) ==
    IF \E name \in Range(cfg.inputs) : name \notin DOMAIN input_values
    THEN [ok |-> FALSE, error |-> "ComponentError", order |-> <<>>, executed |-> <<>>,
          state |-> state, outputs |-> current_outputs]
    ELSE LET r == get_task_execution_order(cfg.tasks)
         IN  IF ~r.ok
             THEN [ok |-> FALSE, error |-> r.error, order |-> <<>>, executed |-> <<>>,
                   state |-> state, outputs |-> current_outputs]
             ELSE LET run == ExecuteTasks(r.order, 1,
                                          [ctx |-> Context(input_values, current_outputs,
                                                           state),
                                           executed |-> <<>>])
                  IN  [ok |-> ~run.ctx.failed, error |-> "TaskError", order |-> r.order,
                       executed |-> run.executed, state |-> run.ctx.state,
                       outputs |-> run.ctx.outputs]

\* history of one call of execute_round: the round, the record handed in,
\* the mappings before the call and what the call did
ExecutionRecord(n, input_values, r) ==
    [n |-> n, inputs |-> input_values, state_before |-> state,
     outputs_before |-> current_outputs, ok |-> r.ok, error |-> r.error,
     order |-> r.order, executed |-> r.executed]

\* a variant that reports the round before the failing one
ErrorRound0(n) == n - 1

\* the round number in the message of the ComponentError of Executor.run
ErrorRound(n) == n

\* the try block of Executor.run: execute_round returns, or raises and is
\* wrapped in ComponentError("Error in round N: ...")
SyncExecuteRound ==
    /\ pc = "sync_execute"
    /\ LET r == execute_round(round_inputs)
       IN  /\ state' = r.state
           /\ current_outputs' = r.outputs
           /\ ordered_tasks' = r.order
           /\ rounds' = Append(rounds, ExecutionRecord(current_round, round_inputs, r))
           /\ IF r.ok
              THEN /\ pc' = "sync_record"
                   /\ UNCHANGED raised
              ELSE /\ pc' = "error"
                   /\ raised' = [kind |-> "ComponentError", at |-> "round",
                                 round |-> ErrorRound(current_round), cause |-> r.error,
                                 task |-> IF r.executed = <<>> THEN "none"
                                          ELSE cfg.tasks[r.executed[Len(r.executed)]].name]
    /\ UNCHANGED <<cfg, log, eventVars, timeVars, runVars, current_round, round_inputs>>

\* a variant that records the mappings the round started from
SyncRoundRecordBefore(n, input_values, outs, st, order) ==
    [round_number |-> n, inputs |-> input_values,
     outputs |-> rounds[Len(rounds)].outputs_before,
     state |-> rounds[Len(rounds)].state_before,
     task_order |-> IF cfg.track_task_order
                    THEN [k \in 1 .. Len(order) |-> cfg.tasks[order[k]].name]
                    ELSE <<>>]

\* the RoundRecord of a synchronous round; task_order is None (the empty
\* sequence here) unless track_task_order is set
SyncRoundRecord(n, input_values, outs, st, order) ==
    [round_number |-> n, inputs |-> input_values, outputs |-> outs, state |-> st,
     task_order |-> IF cfg.track_task_order
                    THEN [k \in 1 .. Len(order) |-> cfg.tasks[order[k]].name]
                    ELSE <<>>]

\* a variant that appends no record
SyncAddRoundSkipped ==
    /\ pc = "sync_record"
    /\ pc' = "sync_loop"
    /\ UNCHANGED <<cfg, state, current_outputs, log, raised, eventVars, syncVars, timeVars, runVars>>

\* log.add_round(current_round, inputs.copy(), outputs.copy(), state.copy(), task_order)
SyncAddRound ==
    /\ pc = "sync_record"
    /\ log' = add_round(log, SyncRoundRecord(current_round, round_inputs, current_outputs,
                                             state, ordered_tasks))
    /\ pc' = "sync_loop"
    /\ UNCHANGED <<cfg, state, current_outputs, raised, eventVars, syncVars, timeVars, runVars>>

Next ==
    \/ Start
    \/ Terminate
    \/ TerminationRaises
    \/ QueueExhausted
    \/ TimeBackwards
    \/ GenerateInput
    \/ DispatchNone
    \/ DispatchInline
    \/ DispatchParallel
    \/ \E k \in 1 .. Len(workers) : WorkerPick(k)
    \/ \E k \in 1 .. Len(workers) : WorkerLockSnapshot(k)
    \/ \E k \in 1 .. Len(workers) : WorkerSnapshot(k)
    \/ \E k \in 1 .. Len(workers) : WorkerExec(k)
    \/ \E k \in 1 .. Len(workers) : WorkerLockState(k)
    \/ \E k \in 1 .. Len(workers) : WorkerMergeState(k)
    \/ \E k \in 1 .. Len(workers) : WorkerLockOutputs(k)
    \/ \E k \in 1 .. Len(workers) : WorkerMergeOutputs(k)
    \/ JoinError
    \/ JoinOk
    \/ Construct
    \/ SyncRun
    \/ SyncTerminate
    \/ SyncTerminationRaises
    \/ SyncGenerate
    \/ SyncExecuteRound
    \/ SyncAddRound

Spec == Init /\ [][Next]_vars

\* the runs under MaxTime of components with a periodic task: the ticks,
\* the rounded intervals, and the components that re-arm or emit without delay
TerminationInit ==
    /\ cfg \in {TicksConfig} \cup DriftConfigs \cup NoDelayConfigs
    /\ Constructing

\* the steps of run() these components take: at most one task is activated
\* per event, so every task runs inline on the scheduler thread
TerminationNext ==
    \/ Start
    \/ Terminate
    \/ QueueExhausted
    \/ DispatchNone
    \/ DispatchInline

\* what a step of run() does to its position and to event_count: the start,
\* the return, or one more event popped
RunStep ==
    \/ /\ pc = "start"
       /\ pc' = "loop"
       /\ UNCHANGED event_count
    \/ /\ pc = "loop"
       /\ ShouldTerminate = "T" \/ is_empty(event_queue)
       /\ pc' = "done"
       /\ UNCHANGED event_count
    \/ /\ CanPop
       /\ pc' \in {"loop", "error"}
       /\ event_count' = event_count + 1

\* run() is one sequential loop on one thread: it takes its next step
\* whenever it has one
Fairness == WF_<<pc, event_count>>(RunStep)

TerminationSpec == TerminationInit /\ [][TerminationNext]_vars /\ Fairness

\* the runs of Spec and those of the components whose times are rounded
DriftInit == cfg \in Configs \cup DriftConfigs /\ Constructing

DriftSpec == DriftInit /\ [][Next]_vars

----------------------------------------------------------------------------
(* run() called again on the same executor and component after a run that  *)
(* returned its log.                                                       *)

\* history of one later call of run(): the component and the executor as
\* the loop of the new run finds them, and the log the run before returned
RerunRecord(round) ==
    [state |-> state, outputs |-> current_outputs, round |-> round,
     time |-> current_time, latch |-> latch, inputs |-> initial_inputs,
     previous_log |-> log]

\* Executor.run() again: current_round and log are set anew, the component
\* is left as the last run left it
SyncRerun ==
    /\ pc = "done"
    /\ cfg.type = "synchronous"
    /\ Len(reruns) < MaxReruns
    /\ current_round' = 0
    /\ log' = <<>>
    /\ reruns' = Append(reruns, RerunRecord(0))
    /\ pc' = "sync_loop"
    /\ UNCHANGED <<cfg, state, current_outputs, raised, eventVars, timeVars,
                   parseVars, round_inputs, ordered_tasks, rounds>>

\* EventDrivenExecutor.run() again: the periodic events, the input
\* generation and the start event are scheduled on the queue as it is;
\* event_count, the clock, the log and the triggers are left as they are
EventRerun ==
    /\ pc = "done"
    /\ cfg.type = "asynchronous"
    /\ Len(reruns) < MaxReruns
    /\ LET r1 == SchedulePeriodic(cfg.tasks, event_queue, counter)
           r2 == ScheduleInputGeneration(cfg.generator, r1.queue, r1.counter)
           r3 == PushStart(r2.queue, r2.counter)
       IN  /\ event_queue' = r3.queue
           /\ counter' = r3.counter
    /\ reruns' = Append(reruns, RerunRecord(event_count))
    /\ pc' = "loop"
    /\ UNCHANGED <<syncVars, timeVars, parseVars>>
    /\ UNCHANGED <<cfg, state, current_outputs, initial_inputs, current_time,
                   event_count, input_round, log, latch, event, activated, workers,
                   error_queue, completed, raised, selections, popped>>

RerunNext == Next \/ SyncRerun \/ EventRerun

RerunSpec == Init /\ [][RerunNext]_vars

----------------------------------------------------------------------------
(* A bare EventQueue driven by arbitrary push, pop and clear calls.        *)

QueueTimes == 0 .. 1
QueuePriorities == -1 .. 0
QueueNames == {"a", "b"}

QueueEvents ==
    { Event(t, n, p, "none", "none") :
        t \in QueueTimes, n \in QueueNames, p \in QueuePriorities }

\* no executor: the variables of the run stay as constructed
QueueIdle ==
    /\ cfg = TicksConfig
    /\ state = cfg.state
    /\ current_outputs = EmptyDict
    /\ initial_inputs = EmptyDict
    /\ current_time = 0
    /\ event_count = 0
    /\ input_round = 0
    /\ log = <<>>
    /\ latch = <<>>
    /\ pc = "idle"
    /\ current_round = 0
    /\ round_inputs = EmptyDict
    /\ ordered_tasks = <<>>
    /\ rounds = <<>>
    /\ start_time = 0
    /\ call = NoCall
    /\ reruns = <<>>
    /\ document = NoDocument
    /\ parsed = NotParsed
    /\ event = NoEvent
    /\ activated = <<>>
    /\ workers = <<>>
    /\ error_queue = <<>>
    /\ completed = <<>>
    /\ raised = NoError
    /\ selections = <<>>

QueueInit ==
    /\ QueueIdle
    /\ event_queue = <<>>
    /\ counter = 0
    /\ popped = <<>>

QPush ==
    /\ counter < MaxPushes
    /\ \E ev \in QueueEvents :
         LET r == QueuePush(event_queue, counter, ev)
         IN  /\ event_queue' = r.queue
             /\ counter' = r.counter
    /\ UNCHANGED popped
    /\ UNCHANGED execVars

QPop ==
    /\ ~is_empty(event_queue)
    /\ LET r == QueuePop(event_queue)
       IN  /\ event_queue' = r.heap
           /\ popped' = Append(popped, [entry |-> r.item, pushes |-> counter,
                                         left |-> Range(r.heap)])
    /\ UNCHANGED counter
    /\ UNCHANGED execVars

\* EventQueue.clear()
QClear ==
    /\ event_queue' = <<>>
    /\ counter' = 0
    /\ popped' = <<>>
    /\ UNCHANGED execVars

QueueNext == QPush \/ QPop \/ QClear

QueueSpec == QueueInit /\ [][QueueNext]_vars

----------------------------------------------------------------------------
(* Components over every dependency graph: construction, then               *)
(* get_task_execution_order().                                             *)

TaskNames == << "A", "B", "C", "D", "E" >>

\* a depends_on list naming the tasks of a set, in the order of TaskNames
DependsOn(S) == SelectSeq(TaskNames, LAMBDA n : n \in S)

\* n tasks A, B, ... with every choice of depends_on among their own names:
\* every directed graph on n nodes, self-loops included
GraphTasks(n) ==
    LET names == { TaskNames[i] : i \in 1 .. n }
    IN  { [i \in 1 .. n |-> SyncTask(TaskNames[i], DependsOn(d[i]), << SetState("x", i) >>)] :
            d \in [1 .. n -> SUBSET names] }

\* depends_on lists of up to two entries, in any order and with repeats,
\* that may name a task Z the component lacks
LooseLists ==
    LET names == {"A", "B", "Z"}
    IN  {<<>>} \cup { <<a>> : a \in names } \cup { <<a, b>> : a, b \in names }

LooseTasks ==
    { << SyncTask("A", da, << SetState("x", 1) >>),
         SyncTask("B", db, << SetState("x", 2) >>) >> : da, db \in LooseLists }

\* two tasks that carry the same name, with and without a dependency on
\* that name
RepeatedNameTasks ==
    { << SyncTask("A", da, << SetState("x", 1) >>),
         SyncTask("A", db, << SetState("x", 2) >>) >> : da, db \in {<<>>, << "A" >>} }

\* a component of n tasks whose depends_on lists are still to be written
GraphConfig(n) ==
    SyncConfig("graph", [i \in 1 .. n |-> SyncTask(TaskNames[i], <<>>, << SetState("x", i) >>)],
               [x |-> 0], <<>>, <<>>, << MaxRounds(1) >>, << EmptyDict >>, FALSE)

ComponentInit == cfg \in { GraphConfig(n) : n \in 1 .. MaxTasks } /\ Constructed("declare")

\* the caller writes the tasks' depends_on lists, then builds the component
Declare ==
    /\ pc = "declare"
    /\ \E tasks \in GraphTasks(Len(cfg.tasks))
                      \cup (IF Len(cfg.tasks) = 2
                            THEN LooseTasks \cup RepeatedNameTasks ELSE {}) :
          cfg' = [cfg EXCEPT !.tasks = tasks]
    /\ pc' = "new"
    /\ UNCHANGED <<state, current_outputs, log, raised, eventVars, syncVars, timeVars, runVars>>

\* component.get_task_execution_order() on a constructed component
Order ==
    /\ pc = "ready"
    /\ LET r == get_task_execution_order(cfg.tasks)
       IN  /\ ordered_tasks' = r.order
           /\ IF r.ok
              THEN pc' = "ordered" /\ UNCHANGED raised
              ELSE /\ pc' = "error"
                   /\ raised' = [kind |-> r.error, at |-> "order", reason |-> "order"]
    /\ UNCHANGED <<cfg, state, current_outputs, log, eventVars, timeVars, runVars,
                   current_round, round_inputs, rounds>>

ComponentNext == Declare \/ Construct \/ Order

ComponentSpec == ComponentInit /\ [][ComponentNext]_vars

----------------------------------------------------------------------------
(* A bare SimulationTime driven by arbitrary advance_to, advance_by and     *)
(* reset calls.                                                            *)

TimeArgs == -1 .. MaxTimeArg

\* the variables a SimulationTime does not touch
restVars == <<cfg, state, current_outputs, initial_inputs, event_queue, counter,
              event_count, input_round, log, latch, pc, event, activated, workers,
              error_queue, completed, raised, selections, popped, syncVars, runVars>>

\* SimulationTime(initial_time)
TimeInit ==
    /\ cfg = TicksConfig
    /\ state = cfg.state
    /\ current_outputs = EmptyDict
    /\ initial_inputs = EmptyDict
    /\ event_queue = <<>>
    /\ counter = 0
    /\ event_count = 0
    /\ input_round = 0
    /\ log = <<>>
    /\ latch = <<>>
    /\ pc = "idle"
    /\ event = NoEvent
    /\ activated = <<>>
    /\ workers = <<>>
    /\ error_queue = <<>>
    /\ completed = <<>>
    /\ raised = NoError
    /\ selections = <<>>
    /\ popped = <<>>
    /\ current_round = 0
    /\ round_inputs = EmptyDict
    /\ ordered_tasks = <<>>
    /\ rounds = <<>>
    /\ current_time \in 0 .. 1
    /\ start_time = current_time
    /\ call = NoCall
    /\ reruns = <<>>
    /\ document = NoDocument
    /\ parsed = NotParsed

\* history of one call: its number, the method, the argument, current_time
\* and start_time before it, and whether it raised ValueError
TimeCall(op, arg, failed) ==
    [n |-> call.n + 1, op |-> op, arg |-> arg, before |-> current_time,
     start_before |-> start_time, raised |-> failed]

\* a variant that moves the clock to any time asked for
advance_to_unchecked(new_time) ==
    /\ call.n < MaxCalls
    /\ current_time' = new_time
    /\ call' = TimeCall("advance_to", new_time, FALSE)
    /\ UNCHANGED <<start_time, restVars>>

\* SimulationTime.advance_to(new_time)
advance_to(new_time) ==
    /\ call.n < MaxCalls
    /\ IF new_time < current_time
       THEN /\ call' = TimeCall("advance_to", new_time, TRUE)
            /\ UNCHANGED current_time
       ELSE /\ call' = TimeCall("advance_to", new_time, FALSE)
            /\ current_time' = new_time
    /\ UNCHANGED <<start_time, restVars>>

\* SimulationTime.advance_by(delta)
advance_by(delta) ==
    /\ call.n < MaxCalls
    /\ IF delta < 0
       THEN /\ call' = TimeCall("advance_by", delta, TRUE)
            /\ UNCHANGED current_time
       ELSE /\ call' = TimeCall("advance_by", delta, FALSE)
            /\ current_time' = current_time + delta
    /\ UNCHANGED <<start_time, restVars>>

\* SimulationTime.reset(time): the second statement, self.start_time - time,
\* computes a difference and assigns nothing
reset(time) ==
    /\ call.n < MaxCalls
    /\ current_time' = time
    /\ call' = TimeCall("reset", time, FALSE)
    /\ UNCHANGED <<start_time, restVars>>

\* SimulationTime.elapsed()
elapsed == current_time - start_time

TimeNext ==
    \/ \E t \in TimeArgs : advance_to(t)
    \/ \E d \in TimeArgs : advance_by(d)
    \/ \E t \in TimeArgs : reset(t)

TimeSpec == TimeInit /\ [][TimeNext]_vars

----------------------------------------------------------------------------
(* parser.py: one call of ComponentParser.parse_dict on every definition.  *)

\* the variables parse_dict does not touch
unparsedVars == <<cfg, state, current_outputs, initial_inputs, event_queue, counter,
                  current_time, event_count, input_round, log, latch, pc, event,
                  activated, workers, error_queue, completed, raised, selections,
                  popped, syncVars, timeVars, reruns>>

\* no executor and no queue: only the parser runs
ParserInit == QueueInit

\* the caller builds the definition
Load ==
    /\ document = NoDocument
    /\ document' \in Documents
    /\ UNCHANGED <<parsed, unparsedVars>>

\* ComponentParser.parse_dict(data)
ParseDict ==
    /\ document # NoDocument
    /\ parsed = NotParsed
    /\ parsed' = parse_dict(document)
    /\ UNCHANGED <<document, unparsedVars>>

ParserNext == Load \/ ParseDict

ParserSpec == ParserInit /\ [][ParserNext]_vars

----------------------------------------------------------------------------
(* Properties of ComponentParser.parse_dict.                               *)

\* a task object of the definition lacks 'name' or 'code'
MissingNameOrCode ==
    \E i \in 1 .. Len(document.tasks) :
        ~ ({"name", "code"} \subseteq document.tasks[i].fields)

\* an item of inputs or outputs is a dict with several keys
MultiKeyItem ==
    \E item \in Range(document.inputs) \cup Range(document.outputs) :
        item.is = "dict" /\ Len(item.keys) > 1

\* a trigger object names a type that is none of the four
UnknownTriggerType ==
    \E i \in 1 .. Len(document.tasks) :
        /\ "trigger" \in document.tasks[i].fields
        /\ "type" \in document.tasks[i].trigger.fields
        /\ document.tasks[i].trigger.type
              \notin {"periodic", "event", "condition", "immediate"}

\* the type of the component is a string that names neither kind
InvalidComponentType ==
    /\ document.type.is = "str"
    /\ strip(lower(document.type.text)) \notin VALID_COMPONENT_TYPES

\* a trigger object of one of the four types with the key its type asks for
WellFormedTrigger(g) ==
    /\ g.type \in {"periodic", "event", "condition", "immediate"}
    /\ g.fields = {"type", TriggerArgument(g.type)}

\* a definition with nothing malformed whose last task carries a
\* well-formed trigger
WellFormedTriggered ==
    /\ REQUIRED_COMPONENT_FIELDS \subseteq document.fields
    /\ document.name = Text("c")
    /\ document.type.is = "str" /\ ~InvalidComponentType
    /\ \A item \in Range(document.inputs) \cup Range(document.outputs) :
          item.is = "str" \/ (item.is = "dict" /\ Len(item.keys) = 1)
    /\ document.tasks # <<>>
    /\ \A i \in 1 .. Len(document.tasks) :
          /\ {"name", "code"} \subseteq document.tasks[i].fields
          /\ document.tasks[i].code = "pass"
          /\ document.tasks[i].depends_on = <<>>
          /\ "trigger" \in document.tasks[i].fields
                => WellFormedTrigger(document.tasks[i].trigger)
    /\ "trigger" \in document.tasks[Len(document.tasks)].fields
    /\ \A i, j \in 1 .. Len(document.tasks) :
          i # j => document.tasks[i].name # document.tasks[j].name

\* C25: for a definition with a missing task name or code, a multi-key
\* inputs or outputs item, an unknown trigger type or an invalid component
\* type, and for a well-formed definition with a periodic, event, condition
\* or immediate trigger, parse_dict returns a Component or raises
\* ParserError or ValidationError and nothing else
C25_OnlyParserErrorsEscape ==
    (/\ parsed # NotParsed
     /\ \/ MissingNameOrCode
        \/ MultiKeyItem
        \/ UnknownTriggerType
        \/ InvalidComponentType
        \/ WellFormedTriggered)
    => parsed.kind \in {"Component", "ParserError", "ValidationError"}

----------------------------------------------------------------------------
(* Properties of the event-driven run.                                     *)

\* the task executions of the event dispatched last
Executions == { k \in 1 .. Len(workers) : TRUE }
FailedExecutions == { k \in Executions : workers[k].ctx.failed }

\* the component state as it was when the event dispatched last was selected
PreEventState == selections[Len(selections)].state

\* the event dispatched last is over: its tasks have been joined
EventOver == pc \in {"loop", "done", "error"} /\ selections # <<>>

\* the value execution k assigned last to key of mapping m ("state", "outputs")
WrittenValue(k, m, key) ==
    IF m = "state" THEN workers[k].ctx.state[key] ELSE workers[k].ctx.outputs[key]

\* mapping m of the component holds the value execution k assigned to key
Holds(k, m, key) ==
    LET d == IF m = "state" THEN state ELSE current_outputs
    IN  key \in DOMAIN d /\ d[key] = WrittenValue(k, m, key)

\* C1: when an event co-activates two or more tasks and one of them raises,
\* run() fails with a TaskError and the component state after the event is
\* the state before it: no co-activated task's update is applied.
C1_FailedEventAppliesNoUpdate ==
    (EventOver /\ Cardinality(Executions) >= 2 /\ FailedExecutions # {})
        => /\ pc = "error"
           /\ raised.kind = "TaskError"
           /\ state = PreEventState

\* C2: for any task that raised while an event was dispatched, inline or in
\* the pool, no state or output assignment it made before raising is present
\* in component.state or component.current_outputs.
C2_FailedTaskLeavesNoMutation ==
    \A k \in FailedExecutions :
        \A w \in workers[k].ctx.written : ~Holds(k, w[1], w[2])

\* a pool event is over in which a task that had assigned state and outputs
\* raised while another task's update was merged
C2_Witness ==
    /\ pc = "error"
    /\ cfg.name = "partial_pool"
    /\ \E k \in FailedExecutions : Cardinality(workers[k].ctx.written) >= 3
    /\ state["a"] = 1

\* the same for a task that ran inline
C2_WitnessInline ==
    /\ pc = "error"
    /\ cfg.name = "partial_inline"
    /\ \E k \in FailedExecutions : workers[k].ctx.written # {}

\* the executions of the last event all succeeded and assigned pairwise
\* disjoint state keys
StateKeysWritten(k) == { w[2] : w \in { x \in workers[k].ctx.written : x[1] = "state" } }
DisjointSuccess ==
    /\ Cardinality(Executions) >= 2
    /\ FailedExecutions = {}
    /\ \A j, k \in Executions : j # k => StateKeysWritten(j) \cap StateKeysWritten(k) = {}

\* C3: when one event co-activates two or more tasks that all succeed and
\* write pairwise disjoint state keys, then after the event every written key
\* holds the value its writer assigned and every other key keeps its
\* pre-event value.
C3_DisjointWritesAllKept ==
    (EventOver /\ DisjointSuccess)
        => \A key \in DOMAIN state :
              IF \E k \in Executions : key \in StateKeysWritten(k)
              THEN \A k \in Executions :
                      key \in StateKeysWritten(k) => Holds(k, "state", key)
              ELSE key \in DOMAIN PreEventState /\ state[key] = PreEventState[key]

----------------------------------------------------------------------------
(* Properties of triggers and of whole runs, read off the history of       *)
(* task selections.                                                        *)

Selected == 1 .. Len(selections)
TaskIds == 1 .. Len(cfg.tasks)

\* task i was activated by the j-th event that reached task selection
ActivatedAt(i, j) == i \in Range(selections[j].activated)

\* the virtual times at which task i was activated, in order
FiringTimes(i) ==
    LET hits == SelectSeq([j \in Selected |-> j], LAMBDA j : ActivatedAt(i, j))
    IN  [k \in 1 .. Len(hits) |-> selections[hits[k]].time]

\* C5 as claimed: under PeriodicTrigger(2.0) and MaxTime(5.0) the task fires
\* exactly 3 times, at t = 0, 2, 4 (ticks 0, 4, 8), state.ticks ends as 3 and
\* the event at t = 6 is popped but not dispatched.
C5_ThreeFirings ==
    (cfg.name = "ticks" /\ pc = "done")
        => /\ FiringTimes(1) = <<0, 4, 8>>
           /\ state["ticks"] = 3
           /\ Len(log) = 3
           /\ event.time = 12

\* C5 as amended: the task fires exactly 4 times, at t = 0, 2, 4 and 6
\* (ticks 0, 4, 8, 12), state.ticks ends as 4, the event at t = 6 is popped
\* and dispatched, and the run ends at virtual time 6 with the event at t = 8
\* still queued.
C5_FourFirings ==
    (cfg.name = "ticks" /\ pc = "done")
        => /\ FiringTimes(1) = <<0, 4, 8, 12>>
           /\ state["ticks"] = 4
           /\ [k \in 1 .. Len(log) |-> log[k].time] = <<0, 4, 8, 12>>
           /\ event_count = 4
           /\ current_time = 12
           /\ Len(event_queue) = 1 /\ event_queue[1][1] = 16

\* the periodic run has terminated
C5_Witness == cfg.name = "ticks" /\ pc = "done" /\ event_count >= 3

\* the tasks with a PeriodicTrigger of positive interval and no guard
UnguardedPeriodic ==
    { i \in TaskIds : /\ cfg.tasks[i].trigger.type = "periodic"
                      /\ cfg.tasks[i].trigger.interval > 0
                      /\ cfg.tasks[i].condition.kind = "none" }

\* C6: a task with PeriodicTrigger(interval I > 0) and no guard is activated
\* exactly once at each virtual time k*I at which an event is dispatched, and
\* at no other time, whatever other events are queued.
C6_PeriodicFiresOncePerMultiple ==
    \A i \in UnguardedPeriodic :
        \A j \in Selected :
            LET t == selections[j].time
                hits == { m \in Selected : selections[m].time = t /\ ActivatedAt(i, m) }
            IN  IF t % cfg.tasks[i].trigger.interval = 0
                THEN Cardinality(hits) = 1
                ELSE hits = {}

\* an emitted event of priority -1 was dispatched at t = 4 ahead of the
\* periodic event of the same time: P fired on it and not again on its own
\* periodic event, and events at times that are no multiple were dispatched
C6_Witness ==
    /\ cfg.name = "mixed"
    /\ \E j, m \in Selected :
         /\ j < m
         /\ selections[j].time = 4 /\ selections[j].name = "e" /\ ActivatedAt(1, j)
         /\ selections[m].time = 4 /\ selections[m].name = "periodic_P"
         /\ ~ActivatedAt(1, m)
    /\ \E j \in Selected : selections[j].time = 5

ImmediateTasks == { i \in TaskIds : cfg.tasks[i].trigger.type = "immediate" }

\* C7: over one run an ImmediateTrigger reports true for the first event
\* that reaches task selection and false for every later one.
C7_ImmediateFiresOnFirstSelection ==
    \A i \in ImmediateTasks :
        \A j \in Selected : selections[j].calls[i].result = (j = 1)

\* several events reached selection after a first popped event that did not
C7_Witness ==
    /\ cfg.name = "immediate_input"
    /\ Len(selections) >= 2
    /\ event_count > Len(selections)
    /\ selections[1].name = "input_ready"

ConditionTasks == { i \in TaskIds : cfg.tasks[i].trigger.type = "condition" }

\* the value the expression of task i's trigger has on the state shown at
\* the j-th selection
Evaluated(i, j) == Eval(cfg.tasks[i].trigger.cond, selections[j].state)

\* the expression evaluated true on the latest call before the j-th on which
\* it evaluated at all (false when there is none: the latch starts false)
WasTrueBefore(i, j) ==
    LET prior == { m \in 1 .. j - 1 : Evaluated(i, m) # "ERR" }
    IN  /\ prior # {}
        /\ Evaluated(i, CHOOSE m \in prior : \A n \in prior : n <= m) = "T"

\* the selections at which state.x exceeded 10
Above10 == { j \in Selected : selections[j].state["x"] > 10 }

\* task 2 of the rising-edge run fires exactly once, at the first selection
\* at which state.x exceeds 10
EdgeFiresOnce ==
    (cfg.name = "edge" /\ pc = "done")
        => /\ Above10 # {}
           /\ { j \in Selected : ActivatedAt(2, j) }
                = { CHOOSE j \in Above10 : \A m \in Above10 : j <= m }

\* the previous call evaluated false, a call on which the expression raised
\* not counting as one that evaluated false
PreviousCallFalse(i, j) == j = 1 \/ Evaluated(i, j - 1) = "F"

\* the previous call evaluated false, a call on which the expression raised
\* (and which returned false) counting as one that evaluated false
PreviousCallNotTrue(i, j) == j = 1 \/ Evaluated(i, j - 1) # "T"

C8_WitnessEdge ==
    /\ cfg.name = "edge" /\ pc = "done"
    /\ state["x"] >= 14
    /\ Len(FiringTimes(2)) = 1

\* the expression went true, false and true again: two rising edges
C8_WitnessTwoEdges == cfg.name = "updown" /\ Len(FiringTimes(3)) >= 2

\* C9: ping seeded at t = 0, A emits pong with delay 1.5 (3 ticks), B sets
\* state.done, EmptyQueue: the run ends with state.done set, 2 events
\* processed and virtual time 1.5, and no start event was added.
C9_PingPong ==
    cfg.name = "pingpong"
        => /\ pc # "error"
           /\ \A j \in Selected : selections[j].name # "start"
           /\ pc = "done"
                => /\ state["done"] = 1
                   /\ event_count = 2
                   /\ current_time = 3
                   /\ [j \in Selected |-> selections[j].name] = <<"ping", "pong">>
                   /\ log[2].task_order = <<"B">>

C9_Witness == cfg.name = "pingpong" /\ pc = "done" /\ Len(log) = 2

\* the task whose error was captured first during the last event (a worker
\* captures its error in the step in which it finishes)
FirstCaptured ==
    IF Len(workers) = 1 THEN cfg.tasks[workers[1].task].name
    ELSE LET failed == { m \in 1 .. Len(completed) : workers[completed[m]].ctx.failed }
             first == CHOOSE m \in failed : \A n \in failed : m <= n
         IN  cfg.tasks[workers[completed[first]].task].name

C10_Raises ==
    (EventOver /\ FailedExecutions # {})
        => /\ pc = "error"
           /\ raised = [kind |-> "TaskError", task |-> FirstCaptured]
           /\ \A k \in 1 .. Len(log) : log[k].round_number # event_count
           /\ selections[Len(selections)].n = event_count

\* C10: if at least one task activated by an event raises, run() raises a
\* TaskError naming the first task whose error was captured, no log record
\* is appended for the failing event and no later event is popped.
C10_TaskErrorStopsRun ==
    /\ []C10_Raises
    /\ [][pc = "error" => /\ pc' = "error"
                          /\ event_count' = event_count
                          /\ event_queue' = event_queue
                          /\ log' = log]_vars

\* two tasks of one event raised and the one declared later was captured
\* first, while a task of the same event succeeded
C10_WitnessSecondDeclared ==
    /\ pc = "error"
    /\ cfg.name = "partial_pool"
    /\ Cardinality(FailedExecutions) = 2
    /\ raised = [kind |-> "TaskError", task |-> "C"]

\* a task raised in the pool while events were still queued
C10_Witness ==
    /\ pc = "error"
    /\ cfg.name = "failing_periodic"
    /\ raised = [kind |-> "TaskError", task |-> "F"]
    /\ Len(workers) = 2
    /\ Len(event_queue) >= 2

----------------------------------------------------------------------------
(* Properties of the loop of EventDrivenExecutor.run.                      *)

\* the component of one task without a trigger, under the default
\* termination condition
OneUntriggeredTask ==
    /\ cfg.name = "no_trigger"
    /\ cfg.term = << EmptyQueue >>
    /\ Len(cfg.tasks) = 1
    /\ cfg.tasks[1].trigger = NoTrigger

\* C21: an asynchronous component with a single task that has no trigger,
\* run event-driven with the default termination, processes exactly one
\* event, start at time 0; no task is ever activated; the run ends because
\* the queue is empty.
C21_OnlyStartProcessed ==
    OneUntriggeredTask
        => /\ pc # "error"
           /\ event_count <= 1
           /\ Len(selections) = event_count
           /\ \A k \in 1 .. Len(selections) :
                 /\ selections[k].name = "start"
                 /\ selections[k].time = 0
                 /\ selections[k].activated = <<>>
           /\ workers = <<>>
           /\ state = cfg.state
           /\ pc = "done" => /\ event_count = 1
                             /\ Len(log) = 1
                             /\ log[1].event = "start"
                             /\ log[1].task_order = <<>>
                             /\ is_empty(event_queue)
                             /\ ShouldTerminate = "T"

\* the run is over after the one start event
C21_Witness ==
    /\ OneUntriggeredTask
    /\ pc = "done"
    /\ event_count = 1
    /\ event.name = "start"
    /\ current_time = 0
    /\ Len(log) = 1

\* the executor is at the top of its loop
LoopTop == pc \in {"loop", "sync_loop"}

\* the run is governed by one StateCondition
StateConditionOnly == Len(cfg.term) = 1 /\ cfg.term[1].type = "state"

\* the round number the executor hands to should_terminate
RoundNumber == IF cfg.type = "asynchronous" THEN event_count ELSE current_round

\* what the expression of the StateCondition gives on the current state
ExpressionNow == Eval(cfg.term[1].expr, state)

\* the step leaves the loop because should_terminate returned true
ReturnsTrue == pc' = "done" /\ (cfg.type = "asynchronous" => ~is_empty(event_queue))

\* the step ends the run with the RuntimeError of should_terminate
RaisesRuntimeError == pc' = "error" /\ raised'.kind = "RuntimeError"

\* what the step from the top of the loop shows of should_terminate
StateConditionStep ==
    (LoopTop /\ StateConditionOnly)
        => /\ RoundNumber = 0 => ~ReturnsTrue /\ ~RaisesRuntimeError
           /\ (RoundNumber > 0 /\ ExpressionNow = "T") => ReturnsTrue
           /\ (RoundNumber > 0 /\ ExpressionNow = "F") => ~ReturnsTrue /\ ~RaisesRuntimeError
           /\ (RoundNumber > 0 /\ ExpressionNow = "ERR") => RaisesRuntimeError

\* C22: StateCondition.should_terminate returns false at round 0 whatever the
\* state; for a round above 0 it returns the truth value of its expression,
\* and an expression that fails to evaluate raises an error, it is not taken
\* for false, and the error halts the executor's run.
C22_StateConditionRaisesOnFailure ==
    /\ [][StateConditionStep]_vars
    /\ [][pc = "error" => FALSE]_vars

\* the expression failed after the first event: the run ended with the error
C22_Witness ==
    /\ cfg.name = "state_condition"
    /\ pc = "error"
    /\ raised.kind = "RuntimeError"
    /\ event_count = 1
    /\ ExpressionNow = "ERR"
    /\ ~is_empty(event_queue)

\* the expression held from the start, yet one event was processed
C22_WitnessRoundZero ==
    /\ cfg.name = "state_condition"
    /\ cfg.state = [ticks |-> 5]
    /\ cfg.term[1].expr.key = "ticks"
    /\ pc = "done"
    /\ event_count = 1
    /\ state = [ticks |-> 6]

\* the synchronous run stopped when the count passed the bound
C22_WitnessSync ==
    /\ cfg.name = "sync_state_condition"
    /\ cfg.state = [count |-> 0]
    /\ pc = "done"
    /\ current_round = 2
    /\ state = [count |-> 3]

\* the synchronous run ended with the error after its first round
C22_WitnessSyncError ==
    /\ cfg.name = "sync_state_condition"
    /\ pc = "error"
    /\ raised.kind = "RuntimeError"
    /\ current_round = 1
    /\ Len(log) = 1

\* what child i of the termination condition gives at the top of the loop
ChildHolds(i) ==
    CondShouldTerminate(cfg.term[i], event_count, state, current_time, event_count,
                        event_queue)

\* some child holds and no child listed before it raises
AnyChildHolds ==
    \E i \in 1 .. Len(cfg.term) :
        /\ ChildHolds(i) = "T"
        /\ \A j \in 1 .. i - 1 : ChildHolds(j) = "F"

\* the step pops and dispatches nothing and ends the run
StopsWithoutPop ==
    /\ pc' = "done"
    /\ event_queue' = event_queue
    /\ event_count' = event_count
    /\ current_time' = current_time
    /\ selections' = selections
    /\ log' = log
    /\ state' = state

\* event_count stays within every MaxEvents(n) of the termination condition
WithinMaxEvents ==
    \A i \in 1 .. Len(cfg.term) :
        cfg.term[i].type = "max_events" => event_count <= cfg.term[i].n

\* C23: the event-driven loop evaluates the termination condition before
\* every pop: once the condition holds no further event is popped or
\* dispatched, so under MaxEvents(n) event_count never exceeds n, and under a
\* Composite condition the run stops as soon as any child condition holds.
C23_TerminationCheckedBeforePop ==
    /\ [](cfg.type = "asynchronous" => WithinMaxEvents)
    /\ [][(pc = "loop" /\ AnyChildHolds) => StopsWithoutPop]_vars
    /\ [][event_count' # event_count => (pc = "loop" /\ ~AnyChildHolds)]_vars

\* MaxEvents(3) held before MaxTime(10) while events were still queued
C23_Witness ==
    /\ cfg.name = "composite"
    /\ cfg.term = << MaxEvents(3), MaxTime(10) >>
    /\ pc = "done"
    /\ event_count = 3
    /\ ~is_empty(event_queue)
    /\ ChildHolds(1) = "T"
    /\ ChildHolds(2) = "F"

\* the second child, MaxEvents(1), held although the StateCondition listed
\* after it would have raised
C23_WitnessShortCircuit ==
    /\ cfg.name = "composite"
    /\ cfg.term = << MaxEvents(1), StateCond(Gt("absent", 0)) >>
    /\ pc = "done"
    /\ event_count = 1
    /\ ChildHolds(2) = "ERR"

\* the second child held, the first did not
C23_WitnessSecondChild ==
    /\ cfg.name = "composite"
    /\ cfg.term = << MaxTime(4), MaxEvents(5) >>
    /\ pc = "done"
    /\ ChildHolds(1) = "T"
    /\ ChildHolds(2) = "F"
    /\ ~is_empty(event_queue)

\* C24: each run starts from the component's declared initial state: a
\* second call of run() on the same executor and component starts with
\* state, current_outputs, the round and event counters, the clock and the
\* trigger latches at their initial values, and returns the same log as the
\* run before it.
C24_EveryRunStartsFresh ==
    \A k \in 1 .. Len(reruns) :
        /\ reruns[k].state = cfg.state
        /\ reruns[k].outputs = [o \in Range(cfg.outputs) |-> NoneValue]
        /\ reruns[k].round = 0
        /\ reruns[k].time = 0
        /\ reruns[k].latch = [i \in 1 .. Len(cfg.tasks) |-> InitLatch]
        /\ (k = Len(reruns) /\ pc = "done") => log = reruns[k].previous_log

----------------------------------------------------------------------------
(* Properties of the worker pool of _execute_tasks_parallel.               *)

\* the component outputs as they were when the event dispatched last was
\* selected
PreEventOutputs == selections[Len(selections)].outputs

\* work item k takes its private copies in this step
TakesSnapshot(k) ==
    /\ pc = "join"
    /\ k <= Len(workers)
    /\ workers[k].pc = "snapshot"
    /\ workers'[k].pc = "copied"

\* C26: every task co-activated by one event starts from a private snapshot
\* equal to the component's state and outputs at the moment the event was
\* dispatched, so no task observes a write of another task of the same
\* event, for any pool size and any interleaving.
C26_SnapshotIsDispatchState ==
    [][\A k \in 1 .. Len(activated) :
          TakesSnapshot(k) => /\ workers'[k].ctx.state = PreEventState
                              /\ workers'[k].ctx.outputs = PreEventOutputs]_vars

\* C27: during parallel execution the snapshot, which reads component.state
\* and current_outputs, is taken holding the state lock and the output lock,
\* so no worker is inside the snapshot block while another is inside the
\* block that merges into current_outputs.
C27_OutputsReadUnderOutputLock ==
    \A j, k \in 1 .. Len(workers) :
        (pc = "join" /\ j # k /\ workers[j].pc = "snapshot")
            => ~HoldsOutputLock(k)

----------------------------------------------------------------------------
(* Properties of task selection and of the events tasks emit.              *)

\* the history record of the selection made for the event dispatched last
LastSelection == selections[Len(selections)]

\* the PeriodicTrigger of task i reported true in the last selection
PeriodicFired(i) ==
    /\ cfg.tasks[i].trigger.type = "periodic"
    /\ LastSelection.calls[i].result

\* the queue holds the event periodic_<task i> for the time of the last
\* selection plus the interval of the task
NextPeriodicQueued(i) ==
    \E e \in 1 .. Len(event_queue) :
        /\ event_queue[e][4].name = "periodic_" \o cfg.tasks[i].name
        /\ event_queue[e][4].time = LastSelection.time + cfg.tasks[i].trigger.interval

\* C28: whenever a PeriodicTrigger reports true at selection at time t, the
\* event periodic_<task> with time t + interval is in the queue from the
\* selection on: while the tasks of the event run, and after the task was
\* rejected by its guard or raised.
C28_PeriodicRearmedAtSelection ==
    (selections # <<>> /\ pc \in {"join", "loop", "done", "error"})
        => \A i \in 1 .. Len(cfg.tasks) : PeriodicFired(i) => NextPeriodicQueued(i)

\* a periodic task that fired was rejected by its guard and its next event
\* is queued
C28_Witness ==
    /\ selections # <<>>
    /\ pc = "loop"
    /\ \E i \in 1 .. Len(cfg.tasks) :
          /\ PeriodicFired(i)
          /\ cfg.tasks[i].condition.kind # "none"
          /\ i \notin Range(LastSelection.activated)
          /\ NextPeriodicQueued(i)

\* a periodic task that fired raised and its next event is queued
C28_WitnessRaised ==
    /\ pc = "error"
    /\ raised.kind = "TaskError"
    /\ \E k \in 1 .. Len(workers) :
          /\ workers[k].ctx.failed
          /\ PeriodicFired(workers[k].task)
          /\ NextPeriodicQueued(workers[k].task)

\* the next event of a periodic task is queued while no task of the event
\* has started
C28_WitnessBeforeExecution ==
    /\ pc = "join"
    /\ \A k \in 1 .. Len(workers) : workers[k].pc = "queued"
    /\ \E k \in 1 .. Len(workers) :
          PeriodicFired(workers[k].task) /\ NextPeriodicQueued(workers[k].task)

\* the events pushed in this step, in the order of their pushes: each push
\* takes the next value of the queue's counter
PushedEvents ==
    [n \in 1 .. (counter' - counter) |->
        (CHOOSE x \in Range(event_queue') : x[3] = counter + n - 1)[4]]

\* the events pushed in this step on behalf of the task of work item k
PushedFor(k) ==
    SelectSeq(PushedEvents,
              LAMBDA ev : ev.source_task = cfg.tasks[workers'[k].task].name)

\* the events the task of work item k emitted, as _schedule_pending_events
\* builds them at the time of the event being dispatched
EmittedBy(k) ==
    [m \in 1 .. Len(workers'[k].ctx.pending) |->
        LET e == workers'[k].ctx.pending[m]
        IN  Event(current_time' + e.delay, e.name, e.priority, e.data,
                  cfg.tasks[workers'[k].task].name)]

\* the dispatch of an event ends in this step without an error: the single
\* task has run inline, or the pool has been joined
DispatchEnds ==
    /\ pc' = "loop"
    /\ \/ pc = "join"
       \/ pc = "loop" /\ Len(selections') > Len(selections)

\* the event popped in this step is the least entry of the queue by time,
\* priority and push order
PopsLeast ==
    \E least \in Range(event_queue) :
        /\ least[4] = event'
        /\ \A x \in Range(event_queue) : x = least \/ EntryLess(least, x)

\* C29: an event a task emits while event e is dispatched is pushed only
\* after every task activated by e has completed, with time current_time +
\* delay, the emitting task's name as source_task and the emitted priority
\* and data; the events of one task are pushed in emission order, every pop
\* takes the least entry by time, priority and push order, so events one
\* task emitted with equal delay and priority are popped in emission order,
\* and nothing is pushed or popped while the tasks of e run.
C29_EmittedEventsPushedAfterJoin ==
    /\ [][DispatchEnds => /\ \A k \in 1 .. Len(workers') : PushedFor(k) = EmittedBy(k)
                          /\ \A n \in 1 .. Len(PushedEvents) :
                               \/ PushedEvents[n].source_task = "none"
                               \/ \E k \in 1 .. Len(workers') :
                                    PushedEvents[n].source_task
                                        = cfg.tasks[workers'[k].task].name]_vars
    /\ [][(pc = "join" /\ pc' = "join")
            => /\ event_queue' = event_queue
               /\ counter' = counter
               /\ event_count' = event_count]_vars
    /\ [][event_count' # event_count => PopsLeast]_vars

\* the names of the events dispatched so far, in the order of their pops
PoppedNames == [j \in 1 .. Len(selections) |-> selections[j].name]

\* two tasks of one event emitted in the pool, one of them two events with
\* equal delay and priority, and these were popped in emission order
C29_Witness ==
    /\ cfg.name = "burst"
    /\ Len(cfg.tasks) = 4
    /\ pc = "done"
    /\ \E i, j \in 1 .. Len(selections) :
          i < j /\ selections[i].name = "x" /\ selections[j].name = "y"
    /\ state["last"] # 0

\* the same for a task that ran inline
C29_WitnessInline ==
    /\ cfg.name = "burst"
    /\ Len(cfg.tasks) = 3
    /\ pc = "done"
    /\ PoppedNames = <<"start", "x", "y">>

\* the tasks selection j should have activated, in declared order: those
\* with a trigger that reported true whose guard, if any, evaluates truthy
\* on the state the selection was made with
ExpectedActivated(j) ==
    SelectSeq([i \in 1 .. Len(cfg.tasks) |-> i],
              LAMBDA i :
                  /\ cfg.tasks[i].trigger.type # "none"
                  /\ selections[j].calls[i].result
                  /\ \/ cfg.tasks[i].condition.kind = "none"
                     \/ Eval(cfg.tasks[i].condition, selections[j].state) = "T")

\* C30: for every dispatched event a task is in the activated set iff it
\* has a trigger that reported true for the event and its guard, if any,
\* evaluated truthy; a task without a trigger is never activated; and the
\* activated set is in declared order.
C30_ActivatedIffTriggerAndGuard ==
    \A j \in 1 .. Len(selections) :
        /\ selections[j].activated = ExpectedActivated(j)
        /\ \A i \in 1 .. Len(cfg.tasks) :
              cfg.tasks[i].trigger.type = "none"
                  => i \notin Range(selections[j].activated)

\* one event for which a guard passed, a guard was false, a guard raised
\* and a task had no trigger, with two tasks activated
C30_Witness ==
    /\ cfg.name = "guarded"
    /\ selections # <<>>
    /\ LastSelection.activated = <<3, 4>>
    /\ Eval(cfg.tasks[1].condition, LastSelection.state) = "ERR"
    /\ Eval(cfg.tasks[3].condition, LastSelection.state) = "T"

\* a task whose trigger reported true was rejected by a guard that is false
C30_WitnessRejected ==
    /\ selections # <<>>
    /\ \E i \in 1 .. Len(cfg.tasks) :
          /\ LastSelection.calls[i].result
          /\ Eval(cfg.tasks[i].condition, LastSelection.state) = "F"
          /\ i \notin Range(LastSelection.activated)
    /\ Len(LastSelection.activated) >= 2

\* the guard of task i failed to evaluate in selection j, after the trigger
\* of the task had reported true
GuardRaised(j, i) ==
    /\ selections[j].calls[i].result
    /\ cfg.tasks[i].condition.kind # "none"
    /\ Eval(cfg.tasks[i].condition, selections[j].state) = "ERR"

\* what the trigger of task i reports for the event of selection j, from
\* the latch it had before the selection
TriggerReports(j, i) ==
    should_activate(cfg.tasks[i].trigger, selections[j].calls[i].before,
                    selections[j].name, selections[j].state, selections[j].time).result

\* task i passes selection j on its own account: its trigger reports true
\* and it has no guard or a guard that is true
Passes(j, i) ==
    /\ TriggerReports(j, i)
    /\ \/ cfg.tasks[i].condition.kind = "none"
       \/ Eval(cfg.tasks[i].condition, selections[j].state) = "T"

\* run() has ended with an exception that no task body and no other step
\* than task selection accounts for
SelectionRaised ==
    /\ pc = "error"
    /\ raised.kind \notin {"TaskError", "ValueError", "RuntimeError", "ComponentError"}

\* C31: a guard whose evaluation fails leaves its task out of the activated
\* set of that event and never raises out of task selection: the tasks
\* that pass on their own account are activated all the same, and the run
\* ends in an error only through a task body, the clock, the termination
\* condition or the input generator.
C31_GuardErrorIsNotActivated ==
    /\ ~SelectionRaised
    /\ \A j \in 1 .. Len(selections) :
          \A i \in 1 .. Len(cfg.tasks) :
              /\ GuardRaised(j, i) => i \notin Range(selections[j].activated)
              /\ ((\E g \in 1 .. Len(cfg.tasks) : GuardRaised(j, g)) /\ Passes(j, i))
                    => i \in Range(selections[j].activated)

\* a guard raised for the first task of an event, a later task of the same
\* event ran, the event it emitted was dispatched and the run went on to
\* its end
C31_Witness ==
    /\ cfg.name = "guarded"
    /\ pc = "done"
    /\ Len(selections) = 2
    /\ GuardRaised(1, 1)
    /\ 4 \in Range(selections[1].activated)
    /\ selections[2].name = "next"
    /\ "w" \in DOMAIN state /\ state["w"] = 1

\* the latch of the trigger of task i after the call made in selection j
LatchAfter(j, i) ==
    IF j < Len(selections) THEN selections[j + 1].calls[i].before ELSE latch[i]

\* a call of a Periodic, Event or Immediate trigger that returned false
\* left the trigger as it was
FalseCallLeavesLatch ==
    \A j \in 1 .. Len(selections) :
        \A i \in 1 .. Len(cfg.tasks) :
            (/\ cfg.tasks[i].trigger.type \in {"periodic", "event", "immediate"}
             /\ ~selections[j].calls[i].result)
                => LatchAfter(j, i) = selections[j].calls[i].before

C32_WitnessFrame ==
    \E j \in 1 .. Len(selections) :
        \E i \in 1 .. Len(cfg.tasks) :
            /\ ~selections[j].calls[i].result
            /\ \/ /\ cfg.tasks[i].trigger.type = "periodic"
                  /\ ~selections[j].calls[i].before.never
               \/ /\ cfg.tasks[i].trigger.type = "immediate"
                  /\ selections[j].calls[i].before.has_run

----------------------------------------------------------------------------
(* Properties of the loop of run(): input generation, the periodic chains, *)
(* the clock and the ways the loop ends.                                   *)

\* the loop pops a _generate_input event of a run that has an input generator
GenerateInputStep ==
    /\ CanPop
    /\ NextEvent.name = "_generate_input"
    /\ cfg.generator.on
    /\ event_count' = event_count + 1

\* the entries the step added to the queue, and those it removed
AddedEntries == Range(event_queue') \ Range(event_queue)
RemovedEntries == Range(event_queue) \ Range(event_queue')

\* the events among the entries added that carry this name
AddedNamed(n) == { e \in AddedEntries : e[4].name = n }

\* generate() returned a record on this step
Generated == pc' = "loop"

\* C33: processing a _generate_input event at time t increments input_round;
\* when generate() returns, its record is merged into initial_inputs, exactly
\* one input_ready event at time t is pushed and, when input_interval is set,
\* exactly one _generate_input at t + input_interval, and nothing else; no
\* task is selected and no log record is written; when generate() raises, the
\* run ends with ComponentError
C33_GenerateInputStep ==
    [][GenerateInputStep =>
         LET t == NextEvent.time
             gen == cfg.generator
         IN  /\ current_time' = t
             /\ input_round' = input_round + 1
             /\ UNCHANGED <<log, selections, state, current_outputs, latch>>
             /\ RemovedEntries = {NextEntry.item}
             /\ IF Generated
                THEN /\ initial_inputs' =
                            DictUpdate(initial_inputs, gen.sequence[input_round + 1])
                     /\ Cardinality(AddedNamed("input_ready")) = 1
                     /\ \A e \in AddedNamed("input_ready") : e[4].time = t
                     /\ Cardinality(AddedNamed("_generate_input")) =
                            IF gen.interval # 0 THEN 1 ELSE 0
                     /\ \A e \in AddedNamed("_generate_input") :
                            e[4].time = t + gen.interval
                     /\ Cardinality(AddedEntries) = IF gen.interval # 0 THEN 2 ELSE 1
                     /\ Len(event_queue') = Len(event_queue) - 1 + Cardinality(AddedEntries)
                ELSE /\ pc' = "error"
                     /\ raised'.kind = "ComponentError"
                     /\ AddedEntries = {}
                     /\ UNCHANGED initial_inputs
    ]_vars

\* the generator produced its second record at time 3: both records are
\* merged, the second input event and the third _generate_input are queued
C33_Witness ==
    /\ cfg.name = "immediate_input"
    /\ pc = "loop"
    /\ input_round = 2
    /\ current_time = 3
    /\ event.name = "_generate_input"
    /\ initial_inputs = [inc |-> 2]
    /\ \E k \in 1 .. Len(event_queue) :
           /\ event_queue[k][4].name = "input_ready"
           /\ event_queue[k][4].time = 3
    /\ \E k \in 1 .. Len(event_queue) :
           /\ event_queue[k][4].name = "_generate_input"
           /\ event_queue[k][4].time = 6

\* the generator raised at its third round: ComponentError ends the run
C33_WitnessRaised ==
    /\ cfg.name = "immediate_input"
    /\ pc = "error"
    /\ input_round = 3
    /\ raised.kind = "ComponentError"
    /\ event.name = "_generate_input"

\* task i has a PeriodicTrigger with a positive interval
IsPeriodic(i) ==
    /\ cfg.tasks[i].trigger.type = "periodic"
    /\ cfg.tasks[i].trigger.interval > 0

\* the queue holds the event periodic_<task i> for time t
PeriodicQueuedAt(i, t) ==
    \E e \in 1 .. Len(event_queue) :
        /\ event_queue[e][4].name = "periodic_" \o cfg.tasks[i].name
        /\ event_queue[e][4].time = t

\* C35: at every loop top of an event-driven run, every task with a
\* PeriodicTrigger of positive interval has its event periodic_<task> queued:
\* for time 0 before the trigger fired, for last_execution + interval after.
C35_PeriodicChainKept ==
    (cfg.type = "asynchronous" /\ pc = "loop")
        => \A i \in 1 .. Len(cfg.tasks) :
              IsPeriodic(i)
                  => IF latch[i].never THEN PeriodicQueuedAt(i, 0)
                     ELSE PeriodicQueuedAt(i, float_add(latch[i].last_execution,
                                                        cfg.tasks[i].trigger.interval))

\* the trigger last fired at 3 * DriftInterval + 1, its event was popped one
\* tick short of the interval later, and the queue is empty
C35_ChainLost ==
    /\ cfg.name = "drift"
    /\ pc = "loop"
    /\ ~latch[1].never
    /\ latch[1].last_execution = 3 * DriftInterval + 1
    /\ current_time = 4 * DriftInterval
    /\ event.name = "periodic_P"
    /\ event_queue = <<>>

\* the times of the log records never decrease
LogTimesOrdered ==
    \A k \in 1 .. Len(log) - 1 : log[k].time <= log[k + 1].time

\* C36: in an event-driven run every event in the queue has a time that is
\* not before the current virtual time, so advance_to never raises ValueError
\* inside run() and the times of successive log records never decrease,
\* whatever delay a task passes to emit.
C36_NoEventInThePast ==
    cfg.type = "asynchronous"
        => /\ \A e \in 1 .. Len(event_queue) : event_queue[e][4].time >= current_time
           /\ ~(pc = "error" /\ raised.kind = "ValueError")
           /\ LogTimesOrdered

\* task B emitted y with delay -0.5 at time 1: the event popped next is y at
\* time 0.5 and advance_to raised ValueError
C36_WitnessRaised ==
    /\ cfg.name = "backwards"
    /\ pc = "error"
    /\ raised.kind = "ValueError"
    /\ event.name = "y"
    /\ event.time < current_time

\* an event-driven run under MaxTime alone with a periodic task
MaxTimePeriodicRun ==
    /\ cfg.type = "asynchronous"
    /\ Len(cfg.term) = 1
    /\ cfg.term[1].type = "max_time"
    /\ \E i \in 1 .. Len(cfg.tasks) : cfg.tasks[i].trigger.type = "periodic"

\* run() returned or raised
RunOver == pc \in {"done", "error"}

C37_WitnessZeroInterval ==
    /\ cfg.name = "zero_interval"
    /\ pc = "loop"
    /\ event_count = MaxIterations
    /\ Len(log) = MaxIterations
    /\ current_time = 0
    /\ ShouldTerminate = "F"
    /\ Len(event_queue) = 1
    /\ event_queue[1][4].name = "periodic_P"
    /\ event_queue[1][4].time = 0

\* an event answered with delay 0: the clock stays where the first answer
\* was emitted
C37_WitnessZeroDelay ==
    /\ cfg.name = "zero_delay"
    /\ pc = "loop"
    /\ event_count = MaxIterations
    /\ current_time = 0
    /\ ShouldTerminate = "F"
    /\ \E e \in 1 .. Len(event_queue) :
          /\ event_queue[e][4].name = "again"
          /\ event_queue[e][4].time = 0

\* at every loop top of the run with PeriodicTrigger(0) the clock is at 0 and
\* the one event queued is periodic_P for time 0: every iteration leads to
\* the next
C37_ZeroIntervalNeverAdvances ==
    (cfg.name = "zero_interval" /\ pc = "loop")
        => /\ current_time = 0
           /\ ShouldTerminate = "F"
           /\ Len(event_queue) = 1
           /\ event_queue[1][4].name = "periodic_P"
           /\ event_queue[1][4].time = 0

\* the loop condition is false and the queue is empty
PopFindsNothing ==
    /\ cfg.type = "asynchronous"
    /\ pc = "loop"
    /\ ShouldTerminate = "F"
    /\ is_empty(event_queue)

\* C38: when the queue is exhausted while the termination condition is false,
\* the next step of run() returns the log: event_count, the clock, the state,
\* the outputs and the log are left as they were.
C38_EmptyQueueEndsRun ==
    [][PopFindsNothing =>
         /\ pc' = "done"
         /\ UNCHANGED <<event_count, current_time, state, current_outputs, log,
                        event_queue, counter, latch, raised>>
    ]_vars

\* a run under MaxEvents(3) returned after one event: the queue is
\* empty and the condition is still false
C38_Witness ==
    /\ cfg.name = "no_trigger"
    /\ cfg.term = << MaxEvents(3) >>
    /\ pc = "done"
    /\ ShouldTerminate = "F"
    /\ is_empty(event_queue)
    /\ event_count = 1
    /\ Len(log) = 1
    /\ current_time = 0

\* the same under MaxTime and under a StateCondition that is false
C38_WitnessOtherConditions ==
    /\ cfg.name = "no_trigger"
    /\ cfg.term[1].type \in {"max_time", "state"}
    /\ pc = "done"
    /\ ShouldTerminate = "F"
    /\ is_empty(event_queue)
    /\ event_count = 1
    /\ Len(log) = 1

\* the guard of task i is true on the state shown at selection j, or the
\* task has no guard
GuardTrueAt(j, i) ==
    \/ cfg.tasks[i].condition.kind = "none"
    \/ Eval(cfg.tasks[i].condition, selections[j].state) = "T"

\* C39: the latch of an ImmediateTrigger is consumed by the first selection
\* whatever the guard of its task gives: the task is activated at most once
\* in a run, by the first event that reaches selection and only when its
\* guard is true there; when the guard is false or fails to evaluate there,
\* the task is never activated in the run.
C39_ImmediateLatchConsumedAtSelection ==
    cfg.type = "asynchronous"
        => \A i \in ImmediateTasks :
              /\ \A j \in Selected :
                    /\ ActivatedAt(i, j) => (j = 1 /\ GuardTrueAt(1, i))
                    /\ LatchAfter(j, i).has_run
              /\ (selections # <<>> /\ ~GuardTrueAt(1, i))
                    => \A j \in Selected : ~ActivatedAt(i, j)

\* the guard of I was false and the guard of R raised at the start event;
\* at the later event next the guard of I is true, and neither task ran
C39_Witness ==
    /\ cfg.name = "guarded_immediate"
    /\ pc = "done"
    /\ Len(selections) = 2
    /\ Eval(cfg.tasks[1].condition, selections[1].state) = "F"
    /\ Eval(cfg.tasks[2].condition, selections[1].state) = "ERR"
    /\ selections[2].name = "next"
    /\ Eval(cfg.tasks[1].condition, selections[2].state) = "T"
    /\ selections[2].activated = << 4 >>
    /\ state = [ready |-> 1, ran |-> 0, bad |-> 0, seen |-> 1]

\* the guard of I was true at the start event: I ran then and not again
C39_WitnessOnce ==
    /\ cfg.name = "guarded_immediate"
    /\ pc = "done"
    /\ Len(selections) = 2
    /\ selections[1].activated = << 1, 3 >>
    /\ selections[2].activated = << 4 >>
    /\ state.ran = 1

----------------------------------------------------------------------------
(* Properties of the execution log, in both executors.                     *)

\* C11 as claimed: every completed iteration of either executor's loop
\* appends exactly one record, so at every loop top len(log) is the number
\* of completed steps: event_count in the event-driven executor,
\* current_round in the synchronous one.
C11_OneRecordPerIteration ==
    /\ pc = "loop" => Len(log) = event_count
    /\ pc = "sync_loop" => Len(log) = current_round

\* C11 as amended: every completed iteration appends exactly one record,
\* except the iterations of the event-driven loop that pop a _generate_input
\* event, which append none; at every loop top len(log) is current_round in
\* the synchronous executor and, in the event-driven one, the number of
\* events that went through task selection: event_count less the number of
\* _generate_input events popped (which input_round counts).
C11_OneRecordPerDispatch ==
    /\ pc = "loop" => /\ Len(log) = Len(selections)
                      /\ Len(log) = event_count - input_round
    /\ pc = "sync_loop" => /\ Len(log) = current_round
                           /\ Len(log) = Len(rounds)

\* two _generate_input events have been popped and events dispatched
C11_Witness ==
    /\ pc = "loop"
    /\ input_round >= 2
    /\ Len(log) >= 2
    /\ event_count = Len(log) + input_round

\* two synchronous rounds are complete
C11_WitnessSync == pc = "sync_loop" /\ current_round = 2 /\ Len(log) = 2

\* C12: the log is append-only and each record is a snapshot: a step keeps
\* every record the log holds as it is, whatever it does to the component's
\* state, outputs and inputs, and a record appended by the step holds the
\* state and the outputs as they are after the step.
C12_RecordsNeverChange ==
    [][/\ Len(log') >= Len(log)
       /\ \A k \in 1 .. Len(log) : log'[k] = log[k]
       /\ Len(log') > Len(log)
            => /\ Len(log') = Len(log) + 1
               /\ log'[Len(log')].state = state'
               /\ log'[Len(log')].outputs = current_outputs']_vars

\* later rounds have changed the state, the outputs and the inputs since the
\* first record was appended
C12_Witness ==
    /\ cfg.name = "counter"
    /\ pc = "sync_loop"
    /\ Len(log) >= 2
    /\ log[1].state # state
    /\ log[1].outputs # current_outputs
    /\ log[1].inputs # round_inputs
    /\ log[1] = [round_number |-> 1, inputs |-> [inc |-> 1], outputs |-> [count |-> 1],
                 state |-> [count |-> 1], task_order |-> <<>>]

\* the same in an event-driven run
C12_WitnessEvent ==
    /\ cfg.name = "ticks"
    /\ pc = "loop"
    /\ Len(log) >= 2
    /\ log[1].state = [ticks |-> 1]
    /\ state # log[1].state

\* the names of the tasks the last call of execute_round ran, in order
ExecutedNames ==
    LET e == rounds[Len(rounds)].executed
    IN  [k \in 1 .. Len(e) |-> cfg.tasks[e[k]].name]

\* C17: for tasks A (state.a = 1), B (depends_on A, state.b = state.a + 1)
\* and C (depends_on B, state.c = state.b + 1), one synchronous round leaves
\* state {a: 1, b: 2, c: 3} whatever order the tasks are declared in.
C17_ChainStateInEveryDeclaredOrder ==
    (cfg.name = "chain" /\ rounds # <<>>)
        => /\ pc # "error"
           /\ ExecutedNames = << "A", "B", "C" >>
           /\ state = [a |-> 1, b |-> 2, c |-> 3]
           /\ log # <<>> => log[1].state = [a |-> 1, b |-> 2, c |-> 3]

\* the round is over for the chain declared as C, B, A
C17_Witness ==
    /\ cfg.name = "chain"
    /\ [i \in 1 .. 3 |-> cfg.tasks[i].name] = << "C", "B", "A" >>
    /\ pc = "done"
    /\ Len(log) = 1
    /\ state = [a |-> 1, b |-> 2, c |-> 3]

\* and for the chain declared as B, C, A
C17_WitnessMixed ==
    /\ cfg.name = "chain"
    /\ [i \in 1 .. 3 |-> cfg.tasks[i].name] = << "B", "C", "A" >>
    /\ pc = "done"
    /\ state = [a |-> 1, b |-> 2, c |-> 3]

\* the n of the MaxRounds(n) the counter runs under
AskedRounds == cfg.term[1].n

\* 1, 3, 6, ...: the sum of the increments 1 .. k
SumTo(k) == (k * (k + 1)) \div 2

\* the mappings execute_round left at the end of round k
StateAfterRound(k) == IF k < Len(rounds) THEN rounds[k + 1].state_before ELSE state
OutputsAfterRound(k) ==
    IF k < Len(rounds) THEN rounds[k + 1].outputs_before ELSE current_outputs

\* C18: a synchronous Executor with MaxRounds(n) and a FixedInputGenerator
\* of n records runs exactly n rounds; its log holds the records of rounds
\* 1 .. n in order, and record k holds the outputs and the state as they were
\* after round k: for the counter fed 1, 2, 3, the counts 1, 3, 6.
C18_CounterRunsAskedRounds ==
    (cfg.name = "counter" /\ Len(cfg.generator.sequence) = AskedRounds)
        => /\ pc # "error"
           /\ current_round <= AskedRounds
           /\ Len(rounds) <= AskedRounds
           /\ pc = "done" => /\ Len(log) = AskedRounds
                             /\ Len(rounds) = AskedRounds
                             /\ current_round = AskedRounds
           /\ \A k \in 1 .. Len(log) :
                 /\ log[k].round_number = k
                 /\ log[k].inputs = [inc |-> k]
                 /\ log[k].state = StateAfterRound(k)
                 /\ log[k].outputs = OutputsAfterRound(k)
                 /\ log[k].state = [count |-> SumTo(k)]
                 /\ log[k].outputs = [count |-> SumTo(k)]

\* three rounds asked for, three records given, the run over
C18_Witness ==
    /\ cfg.name = "counter"
    /\ AskedRounds = 3
    /\ Len(cfg.generator.sequence) = 3
    /\ pc = "done"
    /\ [k \in 1 .. 3 |-> log[k].state.count] = <<1, 3, 6>>
    /\ [k \in 1 .. 3 |-> log[k].outputs.count] = <<1, 3, 6>>
    /\ [k \in 1 .. 3 |-> log[k].round_number] = <<1, 2, 3>>

\* a declared input name is absent from the record of the k-th call
MissingInput(k) == \E name \in Range(cfg.inputs) : name \notin DOMAIN rounds[k].inputs

\* C19: execute_round raises ComponentError when a declared input name is
\* absent from the input record; it does so before any task executes, and
\* state and current_outputs are left as they were.
C19_MissingInputRaisesBeforeTasks ==
    \A k \in 1 .. Len(rounds) :
        MissingInput(k)
            => /\ ~rounds[k].ok
               /\ rounds[k].error = "ComponentError"
               /\ rounds[k].executed = <<>>
               /\ k = Len(rounds)
               /\ state = rounds[k].state_before
               /\ current_outputs = rounds[k].outputs_before
               /\ pc = "error"
               /\ raised.kind = "ComponentError"
               /\ raised.cause = "ComponentError"
               /\ raised.task = "none"

\* the second record lacks an input after a first round that changed state
\* and outputs
C19_Witness ==
    /\ cfg.name = "missing_input"
    /\ pc = "error"
    /\ Len(rounds) = 2
    /\ MissingInput(2)
    /\ state = [count |-> 1]
    /\ current_outputs = [count |-> 1]
    /\ state # cfg.state

\* the first record already lacks the input
C19_WitnessFirst ==
    /\ cfg.name = "missing_first"
    /\ pc = "error"
    /\ Len(rounds) = 1
    /\ MissingInput(1)
    /\ state = cfg.state

\* execute_round raised in the round the synchronous Executor ran last
RoundFailed == rounds # <<>> /\ ~rounds[Len(rounds)].ok

\* the names of the tasks that raised in the event dispatched last
FailedNames == { cfg.tasks[workers[k].task].name : k \in FailedExecutions }

C20_ErrorsCarryRoundOrTask ==
    /\ RoundFailed
          => /\ pc = "error"
             /\ raised.kind = "ComponentError"
             /\ raised.at = "round"
             /\ raised.round = rounds[Len(rounds)].n
             /\ raised.round = current_round
             /\ Len(rounds) = current_round
             /\ Len(log) = current_round - 1
             /\ \A k \in 1 .. Len(log) : log[k].round_number # raised.round
    /\ (EventOver /\ FailedExecutions # {})
          => /\ pc = "error"
             /\ raised.kind = "TaskError"
             /\ raised.task \in FailedNames

\* C20: when execute_round fails in round N of the synchronous Executor,
\* run() raises a ComponentError that carries the round number N, no record
\* for round N is appended and no further round runs; when a task fails in
\* the event-driven executor, the TaskError raised carries that task's name.
C20_ErrorsStopRunWithRoundOrTask ==
    /\ []C20_ErrorsCarryRoundOrTask
    /\ [][pc # "error"]_vars

\* the third round failed in its second task, after two recorded rounds and
\* after the round's first task had written
C20_Witness ==
    /\ cfg.name = "failing_round"
    /\ pc = "error"
    /\ raised.round = 3
    /\ raised.task = "late"
    /\ raised.cause = "TaskError"
    /\ Len(log) = 2
    /\ state.rounds = 3
    /\ current_outputs.o = 2

\* the first round failed: the log is empty
C20_WitnessFirstRound ==
    /\ cfg.name = "failing_round"
    /\ pc = "error"
    /\ raised.round = 1
    /\ log = <<>>

\* a single task activated by an event raised
C20_WitnessEvent ==
    /\ cfg.type = "asynchronous"
    /\ pc = "error"
    /\ raised.kind = "TaskError"
    /\ Len(workers) = 1
    /\ raised.task = cfg.tasks[workers[1].task].name
    /\ FailedExecutions = {1}
    /\ log = <<>>

----------------------------------------------------------------------------
(* Properties of the one context of a synchronous round.                   *)

\* the mappings the k-th task executed in round j found: those the round
\* started from for the first task, those the task before it left otherwise
RECURSIVE MappingsFound(_, _)
MappingsFound(j, k) ==
    IF k = 1
    THEN [state |-> rounds[j].state_before, outputs |-> rounds[j].outputs_before]
    ELSE LET before == MappingsFound(j, k - 1)
             ran == TaskExecute(cfg.tasks[rounds[j].executed[k - 1]].code,
                                Context(rounds[j].inputs, before.outputs, before.state))
         IN  [state |-> ran.state, outputs |-> ran.outputs]

\* the mappings after the last task round j executed, with every write that
\* task made before it returned or raised
MappingsLeft(j) == MappingsFound(j, Len(rounds[j].executed) + 1)

\* round j raised in a task
RaisedInTask(j) == ~rounds[j].ok /\ rounds[j].executed # <<>>

\* C34: in a synchronous round every task runs on the component's own state
\* and outputs as the task before it left them, and the mappings after the
\* round are those the last task executed left, also when that task raised:
\* the writes of the earlier tasks and of the failing task remain.
C34_RoundSharesOneContext ==
    \A j \in 1 .. Len(rounds) :
        /\ StateAfterRound(j) = MappingsLeft(j).state
        /\ OutputsAfterRound(j) = MappingsLeft(j).outputs
        /\ RaisedInTask(j) =>
              /\ j = Len(rounds)
              /\ pc = "error"
              /\ state = MappingsLeft(j).state
              /\ current_outputs = MappingsLeft(j).outputs

\* the first round raised in task late: early's increment of rounds and
\* late's write of o remain, the statements after the failing one never ran
C34_Witness ==
    /\ cfg.name = "failing_round"
    /\ pc = "error"
    /\ Len(rounds) = 1
    /\ RaisedInTask(1)
    /\ Len(rounds[1].executed) = 2
    /\ rounds[1].state_before = [count |-> 0, rounds |-> 0, after |-> 0]
    /\ rounds[1].outputs_before = [o |-> NoneValue]
    /\ state = [count |-> 0, rounds |-> 1, after |-> 0]
    /\ current_outputs = [o |-> 2]

\* the chain declared as C, B, A: B read the a that A wrote in the same round
C34_WitnessChain ==
    /\ cfg.name = "chain"
    /\ [i \in 1 .. 3 |-> cfg.tasks[i].name] = << "C", "B", "A" >>
    /\ Len(rounds) = 1
    /\ rounds[1].ok
    /\ rounds[1].state_before = EmptyDict
    /\ MappingsFound(1, 2).state = [a |-> 1]
    /\ state = [a |-> 1, b |-> 2, c |-> 3]

----------------------------------------------------------------------------
(* Properties of construction and ordering over every dependency graph.    *)

\* task names are unique within a component (the data model of a Task)
UniqueNames == \A i, j \in 1 .. Len(cfg.tasks) : cfg.tasks[i].name = cfg.tasks[j].name => i = j

\* get_task_execution_order() was called on a component that passed validation
OrderCalled == pc = "ordered" \/ (pc = "error" /\ raised.at = "order")

\* where a task stands in the returned order
OrderPosition(i) == CHOOSE p \in 1 .. Len(ordered_tasks) : ordered_tasks[p] = i

\* the tasks named in the depends_on of a task
DependenciesOf(i) ==
    { j \in 1 .. Len(cfg.tasks) : cfg.tasks[j].name \in Range(cfg.tasks[i].depends_on) }

\* the position of the dependency of a task that comes out last, 0 for a
\* task without dependencies: two tasks with the same value become ready
\* together
ReadyAfter(i) ==
    IF DependenciesOf(i) = {} THEN 0
    ELSE CHOOSE p \in 1 .. Len(ordered_tasks) :
            /\ ordered_tasks[p] \in DependenciesOf(i)
            /\ \A j \in DependenciesOf(i) : OrderPosition(j) <= p

C15_WitnessReversed ==
    /\ pc = "ordered"
    /\ ordered_tasks = <<3, 2, 1>>
    /\ DependenciesOf(1) = {2}
    /\ DependenciesOf(2) = {3}

\* the names of the component's tasks
DeclaredNames == { cfg.tasks[i].name : i \in 1 .. Len(cfg.tasks) }

\* the names a task name depends on directly
DirectDependencies(n) ==
    UNION { Range(cfg.tasks[i].depends_on) :
              i \in { i \in 1 .. Len(cfg.tasks) : cfg.tasks[i].name = n } }

\* the names reached from a set of names in up to k dependency steps
RECURSIVE ReachedFrom(_, _)
ReachedFrom(S, k) ==
    IF k = 0 THEN S
    ELSE ReachedFrom(S \cup UNION { DirectDependencies(n) : n \in S }, k - 1)

\* some depends_on entry names a task the component lacks
HasUnknownDependency ==
    \E i \in 1 .. Len(cfg.tasks) : Range(cfg.tasks[i].depends_on) \ DeclaredNames # {}

\* some task depends on itself, directly or through other tasks
HasCycle ==
    \E n \in DeclaredNames : n \in ReachedFrom(DirectDependencies(n), Len(cfg.tasks))

ConstructionRejected ==
    pc = "error" /\ raised.at = "construction" /\ raised.kind = "ComponentError"

C16_WitnessSelf ==
    /\ ConstructionRejected
    /\ Len(cfg.tasks) = 1
    /\ cfg.tasks[1].depends_on = << cfg.tasks[1].name >>

\* an unknown name in an otherwise acyclic graph
C16_WitnessUnknown ==
    /\ ConstructionRejected
    /\ HasUnknownDependency
    /\ ~HasCycle
    /\ raised.reason = "unknown"

\* an accepted graph in which every task but one has dependencies
C16_WitnessAccepted ==
    /\ pc = "ready"
    /\ Len(cfg.tasks) = 3
    /\ Cardinality({ i \in 1 .. 3 : cfg.tasks[i].depends_on # <<>> }) = 2

----------------------------------------------------------------------------
(* Properties of the bare SimulationTime.                                  *)

\* what the last call, if it was advance_to(t), did: it raised and left
\* current_time alone when t was earlier, and set current_time to t otherwise
AdvanceToEffect ==
    call.op = "advance_to"
        => IF call.arg < call.before
           THEN call.raised /\ current_time = call.before
           ELSE ~call.raised /\ current_time = call.arg

\* C13: advance_to(t) raises a value error and leaves current_time unchanged
\* when t < current_time, and otherwise leaves current_time equal to t; no
\* call of advance_to or advance_by lets current_time decrease.
C13_AdvanceKeepsTimeMonotone ==
    /\ []AdvanceToEffect
    /\ [][call'.op \in {"advance_to", "advance_by"} => current_time' >= current_time]_vars

\* advance_to was refused after the clock had moved, and advance_by was too
C13_Witness ==
    /\ call.op = "advance_to"
    /\ call.raised
    /\ call.n = 3
    /\ call.arg >= 0
    /\ current_time > call.arg
    /\ current_time > start_time

\* C14: reset(t) sets both start_time and current_time to t, so elapsed()
\* is 0 right after any reset.
C14_ResetRestartsElapsed ==
    call.op = "reset"
        => /\ current_time = call.arg
           /\ start_time = call.arg
           /\ elapsed = 0

----------------------------------------------------------------------------
(* Properties of the bare EventQueue.                                      *)

\* (a.time, a.priority) <= (b.time, b.priority), lexicographically
LexLeq(a, b) ==
    \/ a[4].time < b[4].time
    \/ a[4].time = b[4].time /\ a[4].priority <= b[4].priority

\* (time, priority, insertion counter) of a is smaller than that of b
KeyLess(a, b) ==
    \/ a[4].time < b[4].time
    \/ a[4].time = b[4].time /\ a[4].priority < b[4].priority
    \/ a[4].time = b[4].time /\ a[4].priority = b[4].priority /\ a[3] < b[3]

\* three pushes (t=1,p=0), (t=1,p=0), (t=1,p=-1), then three pops
ExamplePushed ==
    /\ Len(popped) = 3
    /\ popped[1].pushes = 3
    /\ \A i \in 1 .. 3 :
         LET e == popped[i].entry
         IN  /\ e[4].time = 1
             /\ e[4].priority = IF e[3] = 2 THEN -1 ELSE 0

\* C4: pop returns the queued event with the smallest (time, priority,
\* insertion counter); of two events queued together, the one pushed first
\* is popped first iff its (time, priority) is <= the other's; name, data and
\* source_task play no part; pushing (1,0), (1,0), (1,-1) pops third, first,
\* second.
C4_PopOrder ==
    /\ \A i \in 1 .. Len(popped) :
         LET e == popped[i].entry
         IN  \A x \in popped[i].left :
                /\ KeyLess(e, x)
                /\ e[3] < x[3] => LexLeq(e, x)
                /\ x[3] < e[3] => ~LexLeq(x, e)
    /\ ExamplePushed => [i \in 1 .. 3 |-> popped[i].entry[3]] = <<2, 0, 1>>

\* the example of three pushes has been popped: third, first, second
C4_Witness ==
    /\ ExamplePushed
    /\ [i \in 1 .. 3 |-> popped[i].entry[3]] = <<2, 0, 1>>
    /\ popped[2].entry[4].name # popped[3].entry[4].name

\* C40: get_task_execution_order, called on a component the constructor
\* accepted, never raises and returns as many tasks as the component has,
\* also when the task list repeats a name or a depends_on list repeats an
\* entry.
C40_AcceptedComponentsAreOrdered ==
    OrderCalled
        => /\ pc = "ordered"
           /\ Len(ordered_tasks) = Len(cfg.tasks)

\* two tasks named A without dependencies: the constructor accepted them and
\* get_task_execution_order raised ComponentError
C40_WitnessRepeatedName ==
    /\ ~UniqueNames
    /\ Len(cfg.tasks) = 2
    /\ \A i \in 1 .. 2 : cfg.tasks[i].depends_on = <<>>
    /\ validate_tasks(cfg.tasks) = "ok"
    /\ pc = "error"
    /\ raised.kind = "ComponentError"
    /\ raised.at = "order"

\* a depends_on list that names the same task twice is ordered
C40_WitnessRepeatedEntry ==
    /\ UniqueNames
    /\ pc = "ordered"
    /\ Len(cfg.tasks) = 2
    /\ cfg.tasks[2].depends_on = << "A", "A" >>
    /\ ordered_tasks = << 1, 2 >>

====
